---- MODULE Spec2Model ----
(***************************************************************************)
(* Model of the schematics agent's convergence loop                        *)
(* (agents/orchestrator.py), the document synthesizer (kicad/gpt_writer.py)*)
(* the consistency checker (agents/validator_agent.py) and the external    *)
(* rule checker wrapper (kicad/erc.py).                                    *)
(*                                                                         *)
(* Texts (oracle replies, documents, tool output) are sequences of tokens; *)
(* every token stands for a fixed piece of text, listed below, and the     *)
(* string operations of the code (find, rfind, strip, startswith, endswith,*)
(* "in", slicing) are computed on these sequences.                         *)
(* An optional value (Python None or a value) is the empty set or a        *)
(* singleton set.                                                          *)
(***************************************************************************)
EXTENDS Integers, Sequences, FiniteSets, TLC

VARIABLES
    pc,                 \* position of run_orchestration: the phase of the loop,
                        \* "Accepted" (break), "Exhausted" (the loop ran out), or
                        \* "ValidatorRaised" / "SummaryRaised" (an exception of
                        \* validate / summarize_erc_json left run_orchestration)
    max_iters,          \* argument max_iters
    validator_use_llm,  \* argument validator_use_llm
    exe,                \* whether shutil.which finds the rule checker
    parts,              \* circuit.parts
    allowed,            \* the table returned by candidates_for_parts
    iteration,          \* loop variable of run_orchestration
    prev_text,          \* Optional[str] prev_text
    issues,             \* list of issue strings
    history,            \* GptSchematicWriter._history
    iter_counter,       \* GptSchematicWriter._iter_counter
    file,               \* content of the output path (empty set: no file)
    readable,           \* whether the output path can be read in this iteration
    erc_rc,             \* Optional[int] erc_rc
    erc_violations,     \* Optional[int] erc_violations
    erc_summary_lines,  \* number of lines of erc_summary_lines
    erc_json,           \* what the structured report held in this iteration
    erc_out,            \* stdout + "\n" + stderr of the free-text run, if any
    log,                \* every entry ever passed to _add_history, in order
    oracle,             \* how the synthesizer's last LLMClient.chat call ended
    parsed_text,        \* parsed_text of the last write call
    args,               \* arguments of the call of a function studied on its
                        \* own (load_circuit_spec, resolve_lib_id, ...)
    ret                 \* what that call returned or raised

vars == <<pc, max_iters, validator_use_llm, exe, parts, allowed, iteration,
          prev_text, issues, history, iter_counter, file, readable, erc_rc,
          erc_violations, erc_summary_lines, erc_json, erc_out,
          log, oracle, parsed_text, args, ret>>

(***************************************************************************)
(* Bounds                                                                  *)
(***************************************************************************)
MaxIters == 3        \* largest max_iters tried
MaxReplyLen == 3     \* longest oracle reply (in tokens) of WriteSpec
MaxCalls == 12       \* most writer calls of HistorySpec

None == {}
Some(x) == {x}
TheValue(o) == CHOOSE x \in o : TRUE

(***************************************************************************)
(* Text tokens.                                                            *)
(*   OPEN    (kicad_sch                                                    *)
(*   VER9    (version 20250114)                                            *)
(*   VER6    (version 20211014)                                            *)
(*   SHEET   (sheet_instances (path "/" (page "1")))                       *)
(*   SEXP    any other balanced form without the texts the probes look for,*)
(*           such as (paper "A4")                                          *)
(*   CLOSE   )                                                             *)
(*   TXT     prose without parentheses                                     *)
(*   WS      white space                                                   *)
(* and, in documents of the loop,                                          *)
(*   LIBSYMS (lib_symbols (symbol "Device:R" (pin passive line (name "1")  *)
(*           (number "1")) (rectangle (start -1 -2) (end 1 2))))           *)
(*   LIBSYMS0 (lib_symbols)                                                *)
(*   SYM_R1  (symbol (lib_id "Device:R") (at 100 100 0)                    *)
(*           (uuid 11111111-1111) (property "Reference" "R1"))             *)
(*   SYM_R2  (symbol (lib_id "Device:R") (at 150 100 0)                    *)
(*           (uuid 22222222-2222) (property "Reference" "R2"))             *)
(*   SYM_J1  (symbol (lib_id "Connector:Conn_01x02") (at 100 150 0)        *)
(*           (property "Reference" "Q1"))   (no uuid, wrong prefix)        *)
(*   SYM_C1  the same form as SYM_R1 with "Device:C", (at 0 0 0), "C1"     *)
(*   SYM_C2  the same with "Device:C", (at 5 5 0), "C2"                    *)
(*   SYM_D1  the same with "Device:LED", (at 200 200 0), "D1"              *)
(*   SYM_Y1  the same with "Device:Crystal", (at 200 100 0), "Y1"          *)
(*   REF_R2  (property "Reference" "R2")   outside any symbol form         *)
(*   PAD     (text "...") holding 4000 characters of prose                 *)
(* and, in a seed document with a title,                                   *)
(*   TB_OPEN (title_block (title "                                         *)
(*   TB_CLOSE "))                                                          *)
(*   LIBID   (lib_id "Device:R")   as part of a title                      *)
(* The tokens other than PAD are shorter than 200 characters each and a    *)
(* document of the model has fewer than ten of them.                       *)
(***************************************************************************)
Tok == {"OPEN", "VER9", "VER6", "SHEET", "SEXP", "CLOSE", "TXT", "WS"}
SymTok == {"SYM_R1", "SYM_R2", "SYM_J1", "SYM_C1", "SYM_C2", "SYM_D1", "SYM_Y1"}
DocTok == Tok \cup SymTok
          \cup {"LIBSYMS", "LIBSYMS0", "PAD", "TB_OPEN", "TB_CLOSE", "LIBID", "REF_R2"}

\* the token's text ends with ")"
EndsParen(t) == t \in (DocTok \ {"OPEN", "TXT", "WS", "TB_OPEN"})

\* what the regular expressions of the probes find in a token's text
HasRef(t) == t \in SymTok \cup {"REF_R2"}
RefOf(t) == CASE t = "SYM_R1" -> "R1" [] t \in {"SYM_R2", "REF_R2"} -> "R2"
              [] t = "SYM_J1" -> "Q1"
              [] t = "SYM_C1" -> "C1" [] t = "SYM_C2" -> "C2"
              [] t = "SYM_D1" -> "D1" [] t = "SYM_Y1" -> "Y1"
HasLibId(t) == t \in SymTok \cup {"LIBID"}
LibIdOf(t) == CASE t = "SYM_J1" -> "Connector:Conn_01x02"
                [] t \in {"SYM_C1", "SYM_C2"} -> "Device:C"
                [] t = "SYM_D1" -> "Device:LED"
                [] t = "SYM_Y1" -> "Device:Crystal"
                [] OTHER -> "Device:R"
HasAt(t) == t \in SymTok
AtOf(t) == CASE t = "SYM_R1" -> <<100, 100>> [] t = "SYM_R2" -> <<150, 100>>
             [] t = "SYM_J1" -> <<100, 150>>
             [] t = "SYM_C1" -> <<0, 0>> [] t = "SYM_C2" -> <<5, 5>>
             [] t = "SYM_D1" -> <<200, 200>> [] t = "SYM_Y1" -> <<200, 100>>
HasUuid(t) == t \in SymTok \ {"SYM_J1"}
HasPin(t) == t = "LIBSYMS"
HasShape(t) == t = "LIBSYMS"
HasLibSymbols(t) == t \in {"LIBSYMS", "LIBSYMS0"}

Min(S) == CHOOSE x \in S : \A y \in S : x <= y
Max(S) == CHOOSE x \in S : \A y \in S : x >= y

\* str.find("(kicad_sch"): index of the first occurrence, 0 when there is none
find_open(s) ==
    LET hits == {i \in 1..Len(s) : s[i] = "OPEN"}
    IN  IF hits = {} THEN 0 ELSE Min(hits)

\* str.rfind(")"): index of the token holding the last ")", 0 when there is none
rfind_close(s) ==
    LET hits == {i \in 1..Len(s) : EndsParen(s[i])}
    IN  IF hits = {} THEN 0 ELSE Max(hits)

\* str.strip()
strip(s) ==
    LET keep == {i \in 1..Len(s) : s[i] # "WS"}
    IN  IF keep = {} THEN <<>> ELSE SubSeq(s, Min(keep), Max(keep))

\* str.startswith("(kicad_sch")
startswith_open(s) == Len(s) > 0 /\ s[1] = "OPEN"

\* str.endswith(")")
endswith_close(s) == Len(s) > 0 /\ EndsParen(s[Len(s)])

\* "<piece>" in text
contains(s, t) == \E i \in 1..Len(s) : s[i] = t

(***************************************************************************)
(* The strings of the model: references, part types, library and symbol    *)
(* names, identifiers, values.  The string operations are tables over them.*)
(***************************************************************************)
\* str.upper()
Upper(str) ==
    CASE str = "r" -> "R" [] str \in {"conn", "Conn"} -> "CONN" [] str = "u1" -> "U1"
      [] str \in {"R", "C", "MCU"} -> str
      [] str \in {"", "U", "R1", "R2", "Q1", "C1", "C2", "D1", "Y1", "U1", "U2"} -> str

\* str.lower()
Lower(str) ==
    CASE str \in {"Device", "DEVICE"} -> "device"
      [] str = "U" -> "u"
      [] str \in {"UNKNOWN", "Unknown"} -> "unknown"
      [] str = "Custom" -> "custom"
      [] str = "CustomPart" -> "custompart"
      [] str = "R1" -> "r1"
      [] str = "U1" -> "u1"
      [] str = "R" -> "r"
      [] str = "Connector_Generic" -> "connector_generic"
      [] str = "Conn_01x02" -> "conn_01x02"
      [] str = "MCU_Espressif" -> "mcu_espressif"
      [] str \in {"ESP32-WROOM-32", "esp32-wroom-32"} -> "esp32-wroom-32"
      [] str = "ESP32" -> "esp32"
      [] str = " " -> " "
      [] str = "Device:R" -> "device:r"
      [] str = "Device:C" -> "device:c"
      [] str = "Device:LED" -> "device:led"
      [] str = "Device:Crystal" -> "device:crystal"
      [] str = "Connector:Conn_01x02" -> "connector:conn_01x02"
      [] str \in {"Passive", "passive"} -> "passive"
      [] str = "MCU" -> "mcu"
      [] str = "connector" -> "connector"
      [] str = "U " -> "u "
      [] str = "Device:U" -> "device:u"
      [] str = "DEVICE:UNKNOWN" -> "device:unknown"
      [] str = "Connector_Generic:Conn_01x02" -> "connector_generic:conn_01x02"
      [] str = "MCU_Espressif:ESP32-WROOM-32" -> "mcu_espressif:esp32-wroom-32"
      [] str = "Custom:CustomPart" -> "custom:custompart"
      [] str = "Custom:ESP32" -> "custom:esp32"
      [] str = "Custom:R1" -> "custom:r1"
      [] str = "Custom:U1" -> "custom:u1"

\* str.strip() of an identifier
Strip(str) ==
    CASE str = "Device:U " -> "Device:U"
      [] str \in {"Device:U", "DEVICE:UNKNOWN", "Device:R", "Device:C", "Device:LED",
                  "Device:Crystal", "Connector:Conn_01x02",
                  "Connector_Generic:Conn_01x02", "MCU_Espressif:ESP32-WROOM-32",
                  "Custom:CustomPart", "Custom:ESP32", "Custom:R1", "Custom:U1"} -> str

\* sub in str, on lower-case strings: the pairs for which it holds
In(sub, str) ==
    <<sub, str>> \in {<<"esp32", "esp32">>, <<"esp32", "esp32-wroom-32">>,
                      <<"wroom", "esp32-wroom-32">>,
                      <<"device:r", "device:r">>, <<"device:c", "device:c">>,
                      <<"device:l", "device:led">>, <<"led", "device:led">>,
                      <<"device:c", "device:crystal">>, <<"crystal", "device:crystal">>,
                      <<"connector", "connector:conn_01x02">>}

\* str.startswith(prefix): the pairs for which it holds
StartsWith(str, prefix) ==
    <<str, prefix>> \in {<<"R1", "R">>, <<"R2", "R">>, <<"U1", "U">>, <<"Q1", "Q">>,
                         <<"C1", "C">>, <<"C2", "C">>, <<"D1", "D">>, <<"Y1", "Y">>,
                         <<"connector:conn_01x02", "conn">>}

(***************************************************************************)
(* GptSchematicWriter                                                      *)
(***************************************************************************)
HistoryCap == 10

\* _add_history without the cap
add_history_nocap(h, role, content) ==
    Append(h, [role |-> role, content |-> content])

\* _add_history with a cap that keeps the oldest entries
add_history_keep_oldest(h, role, content) ==
    LET a == Append(h, [role |-> role, content |-> content])
    IN  IF Len(a) > HistoryCap THEN SubSeq(a, 1, HistoryCap) ELSE a

\* _add_history
add_history(h, role, content) ==
    LET a == Append(h, [role |-> role, content |-> content])
    IN  IF Len(a) > HistoryCap
        THEN SubSeq(a, Len(a) - HistoryCap + 1, Len(a))
        ELSE a

\* The writer object: its history, its iteration counter, and the record of
\* every entry handed to _add_history.
add_entry(w, role, content) ==
    [w EXCEPT !.history = add_history(w.history, role, content),
              !.log = Append(w.log, [role |-> role, content |-> content])]

\* _build_prompt: the user payload, by the optional keys it carries
build_prompt(n, prev, iss) ==
    [kind |-> "request", n |-> n,
     previous_text |-> (prev # None /\ TheValue(prev) # <<>>),
     issues_to_fix |-> (iss # <<>>)]

\* the span reply[start : end + 1], or reply.strip()
extract(reply) ==
    LET start == find_open(reply)
        end == rfind_close(reply)
    IN  IF start # 0 /\ end # 0 /\ end > start
        THEN SubSeq(reply, start, end)
        ELSE strip(reply)

\* lines 76-80 of generate_text: the messages handed to self.llm.chat, the
\* system instructions built for this call in front of the history that holds
\* the request just added
messages(w, prev, iss) ==
    <<[role |-> "system", content |-> [kind |-> "system", n |-> w.iter_counter]]>>
    \o add_entry(w, "user", build_prompt(w.iter_counter, prev, iss)).history

\* generate_text that records an assistant entry for an empty reply too
generate_text_always_records(w, prev, iss, o) ==
    LET w1 == add_entry(w, "user", build_prompt(w.iter_counter, prev, iss))
        reply == IF o.raised THEN <<>> ELSE o.text
    IN  [w |-> add_entry(w1, "assistant", [kind |-> "reply", n |-> w.iter_counter]),
         parsed |-> extract(reply), raw |-> reply]

\* generate_text: o is the outcome of self.llm.chat, [raised, text]
generate_text(w, prev, iss, o) ==
    LET w1 == add_entry(w, "user", build_prompt(w.iter_counter, prev, iss))
        reply == IF o.raised THEN <<>> ELSE o.text
    IN  IF reply = <<>>
        THEN [w |-> w1, parsed |-> <<>>, raw |-> <<>>]
        ELSE [w |-> add_entry(w1, "assistant", [kind |-> "reply", n |-> w.iter_counter]),
              parsed |-> extract(reply), raw |-> reply]

\* _seed_schematic with the header of an older format version
seed_schematic_old_version(title) ==
    <<"OPEN", "WS", "VER6", "WS", "SEXP", "WS", "SEXP", "WS", "TB_OPEN">>
    \o (IF title = <<>> THEN <<"TXT">> ELSE title)
    \o <<"TB_CLOSE", "WS", "CLOSE", "WS">>

\* _seed_schematic(title): the title is put between the quotes as it is,
\* "Untitled" (a TXT) standing in for an empty one
seed_schematic_titled(title) ==
    <<"OPEN", "WS", "VER9", "WS", "SEXP", "WS", "SEXP", "WS", "TB_OPEN">>
    \o (IF title = <<>> THEN <<"TXT">> ELSE title)
    \o <<"TB_CLOSE", "WS", "CLOSE", "WS">>

\* _seed_schematic(title="Untitled") of line 144
seed_schematic == seed_schematic_titled(<<"TXT">>)

\* the write policy that persists whatever was extracted
persisted_always(parsed, prev) == parsed

\* the three-way write policy of write: the text written to out_path
persisted(parsed, prev) ==
    IF startswith_open(strip(parsed)) /\ endswith_close(strip(parsed))
    THEN parsed
    ELSE IF prev # None /\ TheValue(prev) # <<>> /\ strip(TheValue(prev)) # <<>>
         THEN TheValue(prev)
         ELSE seed_schematic

\* write: the writer after the call, the text extracted, the file content
write(w, prev, iss, o) ==
    LET w0 == [w EXCEPT !.iter_counter = w.iter_counter + 1]
        g == generate_text(w0, prev, iss, o)
    IN  [w |-> g.w, parsed |-> g.parsed,
         file |-> Some(persisted(g.parsed, prev))]

(***************************************************************************)
(* ValidatorAgent.  A probe reads the document itself: t is the optional   *)
(* text the read yields (None when the read raises).                       *)
(***************************************************************************)
\* functional concatenation of a sequence of sequences
RECURSIVE Flatten(_)
Flatten(ss) == IF ss = <<>> THEN <<>> ELSE Head(ss) \o Flatten(Tail(ss))

\* re.findall(r"\(lib_id\s+\"([^\"]+)\"\)", text)
used_lib_ids(s) == [i \in 1..Len(SelectSeq(s, HasLibId)) |->
                        LibIdOf(SelectSeq(s, HasLibId)[i])]

\* _check_missing_embedded_symbols
check_missing_embedded_symbols(t) ==
    IF t = None THEN <<>>
    ELSE LET text == TheValue(t)
             has_lib_symbols == \E i \in 1..Len(text) : HasLibSymbols(text[i])
         IN  IF used_lib_ids(text) # <<>> /\ ~has_lib_symbols
             THEN <<"no_lib_symbols">> ELSE <<>>

\* _check_symbol_pins_and_graphics
check_symbol_pins_and_graphics(t) ==
    IF t = None THEN <<>>
    ELSE LET text == TheValue(t)
             pin_count == Cardinality({i \in 1..Len(text) : HasPin(text[i])})
             shape_count == Cardinality({i \in 1..Len(text) : HasShape(text[i])})
         IN  IF ~(\E i \in 1..Len(text) : HasLibSymbols(text[i])) THEN <<>>
             ELSE (IF pin_count = 0 THEN <<"no_pins">> ELSE <<>>)
                  \o (IF shape_count = 0 THEN <<"no_graphics">> ELSE <<>>)

\* m.strip().lower() in {"device:u", "device:unknown"}
InvalidLibId(id) == Lower(Strip(id)) \in {"device:u", "device:unknown"}

\* _check_invalid_lib_ids_and_sheet
check_invalid_lib_ids_and_sheet(t) ==
    IF t = None THEN <<>>
    ELSE LET text == TheValue(t)
             invalids == SelectSeq(used_lib_ids(text), InvalidLibId)
         IN  (IF invalids # <<>> THEN <<"invalid_lib_id">> ELSE <<>>)
             \o (IF ~contains(text, "SHEET") THEN <<"no_sheet_instances">> ELSE <<>>)
             \o (IF contains(text, "OPEN") /\ ~contains(text, "VER9")
                 THEN <<"bad_version">> ELSE <<>>)

\* text[start:end] of _extract_instances for the match in token i: 2000
\* characters on either side, which is every token up to the nearest PAD
window(text, i) ==
    LET lo == Max({0} \cup {k \in 1..i : text[k] = "PAD"})
        hi == Min({Len(text) + 1} \cup {k \in i..Len(text) : text[k] = "PAD"})
    IN  SubSeq(text, lo + 1, hi - 1)

\* _extract_instances: one tuple per Reference property whose window holds
\* an (at ...) and a (lib_id ...), with the first of each that re.search finds
\* in the window, and whether it finds a (uuid ...)
extract_instances(t) ==
    IF t = None THEN <<>>
    ELSE LET text == TheValue(t)
             at_m(i) == SelectSeq(window(text, i), HasAt)
             lib_m(i) == SelectSeq(window(text, i), HasLibId)
             uuid_m(i) == SelectSeq(window(text, i), LAMBDA k : k \in SymTok /\ HasUuid(k))
             matches == {i \in 1..Len(text) :
                            HasRef(text[i]) /\ at_m(i) # <<>> /\ lib_m(i) # <<>>}
             inst(i) == [ref |-> RefOf(text[i]),
                         x |-> AtOf(at_m(i)[1])[1], y |-> AtOf(at_m(i)[1])[2],
                         lib_id |-> LibIdOf(lib_m(i)[1]),
                         has_uuid |-> uuid_m(i) # <<>>]
         IN  [n \in 1..Cardinality(matches) |->
                inst(CHOOSE i \in matches : Cardinality({k \in matches : k <= i}) = n)]

\* _desired_prefix_for_lib
desired_prefix_for_lib(lib_id) ==
    LET l == Lower(lib_id)
    IN  IF In("device:r", l) \/ In("resistor", l) THEN "R"
        ELSE IF In("device:c", l) \/ In("capacitor", l) THEN "C"
        ELSE IF In("device:l", l) \/ In("inductor", l) THEN "L"
        ELSE IF In("connector", l) \/ StartsWith(l, "conn") THEN "J"
        ELSE IF In("switch", l) \/ StartsWith(l, "sw") \/ In("button", l) THEN "S"
        ELSE IF In("device:d", l) \/ In("diode", l) \/ In("led", l) THEN "D"
        ELSE IF In("device:q", l) \/ In("transistor", l) \/ In("bjt", l)
                \/ In("mosfet", l) THEN "Q"
        ELSE IF In("crystal", l) \/ In("xtal", l) \/ In("osc", l)
                \/ In("resonator", l) THEN "Y"
        ELSE "U"

\* ref.upper().startswith(prefix)
RefStartsWith(ref, prefix) == StartsWith(Upper(ref), prefix)

min_spacing == 20

\* lines 142-149: the pairs of references reported as too close
too_close_pairs(inst) ==
    LET n == Len(inst)
        pair(i) == [j \in 1..(n - i) |->
                      LET dx == inst[i].x - inst[i + j].x
                          dy == inst[i].y - inst[i + j].y
                      IN  IF dx * dx + dy * dy < min_spacing * min_spacing
                          THEN << <<inst[i].ref, inst[i + j].ref>> >> ELSE <<>>]
    IN  Flatten([i \in 1..n |-> Flatten(pair(i))])

\* lines 150-153: the references reported for their prefix, with the prefix
\* expected
prefix_mismatches(inst) ==
    Flatten([i \in 1..Len(inst) |->
               LET want_prefix == desired_prefix_for_lib(inst[i].lib_id)
               IN  IF ~RefStartsWith(inst[i].ref, want_prefix)
                   THEN << <<inst[i].ref, want_prefix>> >> ELSE <<>>])

\* _check_instance_positions_and_refs
check_instance_positions_and_refs(t) ==
    LET inst == extract_instances(t)
        one(i) == (IF prefix_mismatches(<<inst[i]>>) # <<>>
                   THEN <<"prefix_mismatch">> ELSE <<>>)
                  \o (IF ~inst[i].has_uuid THEN <<"no_uuid">> ELSE <<>>)
    IN  [k \in 1..Len(too_close_pairs(inst)) |-> "too_close"]
        \o Flatten([i \in 1..Len(inst) |-> one(i)])

\* What the validator's oracle call yields: it raises (retries exhausted), or
\* returns a reply of one of these kinds.
LlmReplyKinds == {"empty", "no_braces", "not_json", "json_other",
                  "json_no_issues", "json_one_issue"}
LlmOutcomes == [raised : {TRUE}, kind : {"empty"}]
               \cup [raised : {FALSE}, kind : LlmReplyKinds]

\* _check_kicad_text_llm: the issues, or the exception of self.llm.chat
check_kicad_text_llm(use_llm, t, v) ==
    IF ~use_llm THEN [raised |-> FALSE, issues |-> <<>>]
    ELSE IF t = None THEN [raised |-> FALSE, issues |-> <<"cannot_read">>]
    ELSE IF v.raised THEN [raised |-> TRUE, issues |-> <<>>]
    ELSE [raised |-> FALSE,
          issues |-> CASE v.kind = "not_json" -> <<"llm_non_json">>
                       [] v.kind = "json_one_issue" -> <<"llm_issue">>
                       [] OTHER -> <<>>]

\* validate
validate(use_llm, t, v) ==
    LET heur == check_missing_embedded_symbols(t)
                \o check_symbol_pins_and_graphics(t)
                \o check_invalid_lib_ids_and_sheet(t)
                \o check_instance_positions_and_refs(t)
        llm == IF use_llm THEN check_kicad_text_llm(use_llm, t, v)
               ELSE [raised |-> FALSE, issues |-> <<>>]
    IN  [raised |-> llm.raised, issues |-> heur \o llm.issues]

(***************************************************************************)
(* kicad/erc.py                                                            *)
(***************************************************************************)
\* Free-text output of the rule checker: FOUNDn is "Found n violations".
ErcTok == {"NOISE", "FOUND0", "FOUND2"}
FoundN(t) == IF t = "FOUND2" THEN 2 ELSE 0
IsFound(t) == t \in {"FOUND0", "FOUND2"}
ErcTexts == {<<>>} \cup {<<t>> : t \in ErcTok}

\* parse_erc_violations
parse_erc_violations(output_text) ==
    LET hits == {i \in 1..Len(output_text) : IsFound(output_text[i])}
    IN  IF output_text = <<>> THEN 0
        ELSE IF hits # {} THEN FoundN(output_text[Min(hits)])
        ELSE 0

\* The structured report, as json.loads leaves it:
\*   none        no report (missing or unparsable file): data = None
\*   empty_dict  {}
\*   dict        a dict whose "violations" are a list of n findings
\*   falsy       a value that is no dict and is false ([], 0, "", false, null)
\*   junk        any other value (a non-empty list, a number, ill-typed fields)
MaxViolations == 1
JsonData == [kind : {"none", "empty_dict", "falsy", "junk"}, n : {0}]
            \cup [kind : {"dict"}, n : 0..MaxViolations]
ReturnCodes == {0, 1}

\* run_erc_with_json: the tool is absent, the invocation raises, or it ran
JsonRuns(present) ==
    IF ~present THEN {[mode |-> "absent", rc |-> 0, data |-> [kind |-> "none", n |-> 0]]}
    ELSE {[mode |-> "raised", rc |-> 0, data |-> [kind |-> "none", n |-> 0]]}
         \cup [mode : {"ran"}, rc : ReturnCodes, data : JsonData]

\* run_erc
TextRuns(present) ==
    IF ~present THEN {[mode |-> "absent", rc |-> 0, stdout |-> <<>>, stderr |-> <<>>]}
    ELSE {[mode |-> "raised", rc |-> 0, stdout |-> <<>>, stderr |-> <<>>]}
         \cup [mode : {"ran"}, rc : ReturnCodes, stdout : ErcTexts,
                stderr : {<<>>, <<"FOUND2">>}]

\* summarize_erc_json(data, max_items): the number of lines, or the exception
summarize_erc_json(data, max_items) ==
    CASE data.kind \in {"none", "empty_dict", "falsy"} -> [raised |-> FALSE, lines |-> 0]
      [] data.kind = "dict" ->
            [raised |-> FALSE, lines |-> 1 + (IF data.n < max_items THEN data.n ELSE max_items)]
      [] OTHER -> [raised |-> TRUE, lines |-> 0]

\* len(erc_json.get("violations") or []) under try/except
json_violations(data) ==
    IF data.kind \in {"empty_dict", "dict"} THEN Some(data.n) ELSE None

(***************************************************************************)
(* kicad/rag.py and kicad/library.py.  A symbol identifier "lib:name" is   *)
(* the pair <<lib, name>>; the catalog index_symbols() is the set of the   *)
(* pairs it holds; a part is [ref, type, value], value optional.           *)
(***************************************************************************)
\* f"{lib}:{sym}".lower()
LowerId(id) == <<Lower(id[1]), Lower(id[2])>>

\* f"{lib}:{sym}": the text of an identifier
lib_id_text(id) ==
    CASE id = <<"Device", "U">> -> "Device:U"
      [] id = <<"Device", "U ">> -> "Device:U "
      [] id = <<"DEVICE", "UNKNOWN">> -> "DEVICE:UNKNOWN"
      [] id = <<"Device", "R">> -> "Device:R"
      [] id = <<"Connector_Generic", "Conn_01x02">> -> "Connector_Generic:Conn_01x02"
      [] id = <<"MCU_Espressif", "ESP32-WROOM-32">> -> "MCU_Espressif:ESP32-WROOM-32"
      [] id = <<"Custom", "CustomPart">> -> "Custom:CustomPart"
      [] id = <<"Custom", "ESP32">> -> "Custom:ESP32"
      [] id = <<"Custom", "R1">> -> "Custom:R1"
      [] id = <<"Custom", "U1">> -> "Custom:U1"

\* s[:n]
Take(seq, n) == SubSeq(seq, 1, IF Len(seq) < n THEN Len(seq) ELSE n)

\* a set as a list, in the iteration order of the dict or set
RECURSIVE SetToSeq(_)
SetToSeq(S) == IF S = {} THEN <<>>
               ELSE LET x == CHOOSE y \in S : TRUE IN <<x>> \o SetToSeq(S \ {x})

\* _list_if_exists
list_if_exists(index, lib, symbols) ==
    SelectSeq([i \in 1..Len(symbols) |-> <<lib, symbols[i]>>], LAMBDA id : id \in index)

\* search_symbols_by_substrings
search_symbols_by_substrings(idx, substrings) ==
    SetToSeq({id \in idx : \A i \in 1..Len(substrings) : In(substrings[i], Lower(id[2]))})

\* _sanitize_value_for_custom: runs of other characters become "_", at most 48
\* characters are kept, and an empty base becomes "CustomPart"
sanitize_value_for_custom(value) ==
    CASE value = " " -> <<"Custom", "CustomPart">>
      [] value = "ESP32" -> <<"Custom", "ESP32">>

\* _suggest_from_value: chroma is _chroma_search, a function of the query
\* (an exception of the search counts as no hit)
suggest_from_value(value, idx, chroma) ==
    LET value_l == Lower(value)
    IN  chroma[value]
        \o (IF In("esp32", value_l)
            THEN search_symbols_by_substrings(idx, <<"esp32", "wroom">>) ELSE <<>>)
        \o (IF In("mcp73831", value_l)
            THEN search_symbols_by_substrings(idx, <<"mcp73831">>) ELSE <<>>)
        \o (IF In("hih", value_l) \/ In("4030", value_l)
            THEN search_symbols_by_substrings(idx, <<"hih", "4030">>) ELSE <<>>)

Sentinels == {<<"device", "u">>, <<"device", "unknown">>}

\* the loop of lines 88-98 without the test of line 92
RECURSIVE dedup_keeping_sentinels(_, _, _)
dedup_keeping_sentinels(candidates, result, max_per_lib) ==
    IF candidates = <<>> THEN result
    ELSE LET lib_id == Head(candidates)
         IN  IF \E i \in 1..Len(result) : result[i] = lib_id
             THEN dedup_keeping_sentinels(Tail(candidates), result, max_per_lib)
             ELSE IF Len(result) + 1 >= max_per_lib THEN Append(result, lib_id)
             ELSE dedup_keeping_sentinels(Tail(candidates), Append(result, lib_id),
                                          max_per_lib)

\* lines 88-98: drop the sentinels and the repetitions, stop at the cap
RECURSIVE dedup(_, _, _)
dedup(candidates, result, max_per_lib) ==
    IF candidates = <<>> THEN result
    ELSE LET lib_id == Head(candidates)
         IN  IF LowerId(lib_id) \in Sentinels
             THEN dedup(Tail(candidates), result, max_per_lib)
             ELSE IF \E i \in 1..Len(result) : result[i] = lib_id
             THEN dedup(Tail(candidates), result, max_per_lib)
             ELSE IF Len(result) + 1 >= max_per_lib THEN Append(result, lib_id)
             ELSE dedup(Tail(candidates), Append(result, lib_id), max_per_lib)

\* candidates_for_part
candidates_for_part(part, max_per_lib, idx, chroma) ==
    LET ptype == Upper(part.type)
        ref_id == Upper(part.ref)
        has_value == part.value # None /\ TheValue(part.value) # ""
        candidates ==
            IF ptype = "R" \/ StartsWith(ref_id, "R")
            THEN Take(list_if_exists(idx, "Device", <<"R">>), max_per_lib)
            ELSE IF ptype = "C" \/ StartsWith(ref_id, "C")
            THEN Take(list_if_exists(idx, "Device", <<"C">>), max_per_lib)
            ELSE IF ptype \in {"CONN", "CONNECTOR"}
            THEN Take(list_if_exists(idx, "Connector_Generic",
                        <<"Conn_01x02", "Conn_01x03", "Conn_01x04", "Conn_01x06">>),
                      max_per_lib)
            ELSE IF ptype \in {"LED", "D"}
            THEN Take(list_if_exists(idx, "Device", <<"LED", "D">>), max_per_lib)
            ELSE IF has_value
            THEN Take(suggest_from_value(TheValue(part.value), idx, chroma), max_per_lib)
            ELSE <<>>
        result == dedup(candidates, <<>>, max_per_lib)
    IN  IF result # <<>> THEN result
        ELSE IF has_value THEN <<sanitize_value_for_custom(TheValue(part.value))>>
        ELSE <<<<"Custom", IF ref_id # "" THEN ref_id ELSE "Unknown">>>>

\* a dict as the list of its items in insertion order: d[key] = value
dict_set(d, key, value) ==
    IF \E i \in 1..Len(d) : d[i].key = key
    THEN [i \in 1..Len(d) |-> IF d[i].key = key THEN [key |-> key, value |-> value]
                                ELSE d[i]]
    ELSE Append(d, [key |-> key, value |-> value])

\* list(d.keys())
keys(d) == [i \in 1..Len(d) |-> d[i].key]

\* candidates_for_parts
RECURSIVE candidates_for_parts(_, _, _, _)
candidates_for_parts(ps, max_per_lib, idx, chroma) ==
    IF ps = <<>> THEN <<>>
    ELSE dict_set(candidates_for_parts(SubSeq(ps, 1, Len(ps) - 1), max_per_lib, idx, chroma),
                  ps[Len(ps)].ref,
                  candidates_for_part(ps[Len(ps)], max_per_lib, idx, chroma))

(***************************************************************************)
(* run_orchestration                                                       *)
(***************************************************************************)
\* Replies of the synthesizer's oracle tried in the loop.
GoodDoc == <<"OPEN", "WS", "VER9", "WS", "LIBSYMS", "WS", "SYM_R1", "WS", "SHEET", "CLOSE">>
BareDoc == <<"OPEN", "WS", "VER9", "WS", "SHEET", "CLOSE">>
LoopReplies ==
    { <<>>,                                   \* an empty reply
      <<"TXT">>,                              \* prose, no document
      <<"CLOSE", "TXT", "OPEN">>,             \* ")" only before "(kicad_sch"
      <<"TXT", "WS">> \o GoodDoc \o <<"WS", "TXT">>,   \* a document inside prose
      BareDoc,                                \* a document without instances
      <<"OPEN", "WS", "VER6", "WS", "SYM_R1", "WS", "SYM_J1", "CLOSE">> }
ChatOutcomes(replies) ==
    {[raised |-> TRUE, text |-> <<>>]} \cup [raised : {FALSE}, text : replies]

\* the acceptance test without the violation count
accept_ignoring_violations(iss, rc, viol) == iss = <<>> /\ rc = Some(0)

\* the acceptance test reading the violation count by its truth value
accept_truthy_violations(iss, rc, viol) ==
    iss = <<>> /\ rc = Some(0) /\ viol \notin {None, Some(0)}

\* the acceptance test of line 142
accept(iss, rc, viol) ==
    iss = <<>> /\ rc = Some(0) /\ (viol # None /\ viol = Some(0))

\* re.findall of the Reference properties, and the references not found
missing_refs(prev, expected) ==
    IF prev = None \/ TheValue(prev) = <<>> THEN <<>>
    ELSE LET found_refs == {RefOf(TheValue(prev)[i]) :
                               i \in {k \in 1..Len(TheValue(prev)) : HasRef(TheValue(prev)[k])}}
         IN  SelectSeq(expected, LAMBDA r : r \notin found_refs)

\* The inputs of candidates_for_parts.
PartSpecs == [ref : {"R1", "u1"}, type : {"r", "conn", "U"},
              value : {None, Some(" "), Some("ESP32")}]
MaxParts == 2
PartLists == UNION {[1..n -> PartSpecs] : n \in 0..MaxParts}
Catalogs == { {},
              {<<"Device", "R">>, <<"Connector_Generic", "Conn_01x02">>},
              {<<"MCU_Espressif", "ESP32-WROOM-32">>},
              {<<"Device", "R">>, <<"Connector_Generic", "Conn_01x02">>,
               <<"MCU_Espressif", "ESP32-WROOM-32">>} }
HitLists == { <<>>,
              << <<"Device", "U">> >>,
              << <<"Device", "U ">> >>,
              << <<"DEVICE", "UNKNOWN">>, <<"MCU_Espressif", "ESP32-WROOM-32">> >> }
ChromaSearches == [{" ", "ESP32"} -> HitLists]
NoHits == [q \in {" ", "ESP32"} |-> <<>>]

\* the circuits of the loop: no part, or the resistor R1
LoopParts == {<<>>, <<[ref |-> "R1", type |-> "r", value |-> None]>>}

\* line 43: expected_refs = list(allowed.keys())
expected_refs == keys(allowed)

\* how a chat call ended: it raised, returned "", or returned a reply
ChatKind(o) == IF o.raised THEN "raised" ELSE IF o.text = <<>> THEN "empty" ELSE "reply"

\* the initial state of a loop whose body runs before its bound is tested
Init_loop_entered_once ==
    /\ args = None
    /\ ret = None
    /\ max_iters \in 0..MaxIters
    /\ validator_use_llm \in BOOLEAN
    /\ exe \in BOOLEAN
    /\ parts \in LoopParts
    /\ allowed = candidates_for_parts(parts, 10, {<<"Device", "R">>}, NoHits)
    /\ pc = "Generating"
    /\ iteration = 1
    /\ prev_text = None
    /\ issues = <<>>
    /\ history = <<>>
    /\ iter_counter = 0
    /\ file = None
    /\ readable = TRUE
    /\ erc_rc = None
    /\ erc_violations = None
    /\ erc_summary_lines = 0
    /\ erc_json = [kind |-> "none", n |-> 0]
    /\ erc_out = None
    /\ log = <<>>
    /\ oracle = "none"
    /\ parsed_text = <<>>

Init ==
    /\ args = None
    /\ ret = None
    /\ max_iters \in 0..MaxIters
    /\ validator_use_llm \in BOOLEAN
    /\ exe \in BOOLEAN
    /\ parts \in LoopParts
    /\ allowed = candidates_for_parts(parts, 10, {<<"Device", "R">>}, NoHits)
    /\ pc = IF max_iters >= 1 THEN "Generating" ELSE "Exhausted"
    /\ iteration = IF max_iters >= 1 THEN 1 ELSE 0
    /\ prev_text = None
    /\ issues = <<>>
    /\ history = <<>>
    /\ iter_counter = 0
    /\ file = None
    /\ readable = TRUE
    /\ erc_rc = None
    /\ erc_violations = None
    /\ erc_summary_lines = 0
    /\ erc_json = [kind |-> "none", n |-> 0]
    /\ erc_out = None
    /\ log = <<>>
    /\ oracle = "none"
    /\ parsed_text = <<>>

\* lines 80-93: gpt_generator.write, then the read-back of the output path
GenerateWith(oracles, reads) ==
    /\ pc = "Generating"
    /\ \E o \in oracles, r \in reads :
         LET res == write([history |-> history, log |-> log, iter_counter |-> iter_counter],
                          prev_text, issues, o)
         IN  /\ history' = res.w.history
             /\ log' = res.w.log
             /\ iter_counter' = res.w.iter_counter
             /\ file' = res.file
             /\ parsed_text' = res.parsed
             /\ oracle' = ChatKind(o)
             /\ readable' = r
             /\ prev_text' = IF r THEN res.file ELSE None
    /\ pc' = "Checking"
    /\ UNCHANGED <<args, ret, max_iters, validator_use_llm, exe, parts, allowed, iteration, issues,
                   erc_rc, erc_violations, erc_summary_lines, erc_json, erc_out>>

Generate == GenerateWith(ChatOutcomes(LoopReplies), BOOLEAN)

\* lines 95-113: validator.validate, then the expected references
Check ==
    /\ pc = "Checking"
    /\ \E v \in (IF validator_use_llm THEN LlmOutcomes
                 ELSE {[raised |-> FALSE, kind |-> "empty"]}) :
         LET res == validate(validator_use_llm, IF readable THEN file ELSE None, v)
             missing == missing_refs(prev_text, expected_refs)
         IN  IF res.raised
             THEN /\ pc' = "ValidatorRaised"
                  /\ UNCHANGED issues
             ELSE /\ pc' = "RuleChecking"
                  /\ issues' = res.issues \o
                               (IF missing # <<>> THEN <<"missing_refs">> ELSE <<>>)
    /\ UNCHANGED <<args, ret, max_iters, validator_use_llm, exe, parts, allowed, iteration, prev_text,
                   history, iter_counter, file, readable, erc_rc, erc_violations,
                   erc_summary_lines, erc_json, erc_out, log, oracle, parsed_text>>

\* lines 115-140: the structured run, else the free-text run, then the count
RuleCheck ==
    /\ pc = "RuleChecking"
    /\ \E j \in JsonRuns(exe) :
         IF j.mode = "ran"
         THEN LET sum == summarize_erc_json(j.data, 15)
              IN  /\ pc' = IF sum.raised THEN "SummaryRaised" ELSE "Deciding"
                  /\ erc_rc' = Some(j.rc)
                  /\ erc_summary_lines' = sum.lines
                  /\ erc_json' = j.data
                  /\ erc_out' = None
                  /\ erc_violations' = IF sum.raised THEN None ELSE json_violations(j.data)
         ELSE \E e \in TextRuns(exe) :
                  /\ pc' = "Deciding"
                  /\ erc_summary_lines' = 0
                  /\ erc_json' = [kind |-> "none", n |-> 0]
                  /\ IF e.mode = "ran"
                     THEN /\ erc_rc' = Some(e.rc)
                          /\ erc_out' = Some(e.stdout \o <<"NL">> \o e.stderr)
                          /\ erc_violations' =
                               Some(parse_erc_violations(e.stdout \o <<"NL">> \o e.stderr))
                     ELSE /\ erc_rc' = None
                          /\ erc_out' = None
                          /\ erc_violations' = None
    /\ UNCHANGED <<args, ret, max_iters, validator_use_llm, exe, parts, allowed, iteration, prev_text,
                   issues, history, iter_counter, file, readable, log, oracle,
                   parsed_text>>

\* lines 142-155: accept and leave the loop, or append the feedback and go on.
\* The entry stands for json.dumps(feedback).  erc_rc, erc_violations,
\* erc_summary_lines and erc_json are set anew by lines 116-119 before the next
\* iteration reads them: the model clears them when the iteration goes on.
Decide ==
    /\ pc = "Deciding"
    /\ IF accept(issues, erc_rc, erc_violations)
       THEN /\ pc' = "Accepted"
            /\ UNCHANGED <<history, log, iteration, erc_rc, erc_violations,
                           erc_summary_lines, erc_json, erc_out>>
       ELSE LET w == add_entry([history |-> history, log |-> log,
                                iter_counter |-> iter_counter],
                               "user", [kind |-> "feedback", n |-> iteration])
            IN  /\ history' = w.history
                /\ log' = w.log
                /\ IF iteration < max_iters
                   THEN /\ pc' = "Generating"
                        /\ iteration' = iteration + 1
                        /\ erc_rc' = None
                        /\ erc_violations' = None
                        /\ erc_summary_lines' = 0
                        /\ erc_json' = [kind |-> "none", n |-> 0]
                        /\ erc_out' = None
                   ELSE /\ pc' = "Exhausted"
                        /\ UNCHANGED <<iteration, erc_rc, erc_violations,
                                       erc_summary_lines, erc_json, erc_out>>
    /\ UNCHANGED <<args, ret, max_iters, validator_use_llm, exe, parts, allowed, prev_text, issues,
                   iter_counter, file, readable, oracle, parsed_text>>

Next == Generate \/ Check \/ RuleCheck \/ Decide

Spec == Init /\ [][Next]_vars

(***************************************************************************)
(* WriteSpec: one call of write on any previous text and any reply.        *)
(***************************************************************************)
Replies == UNION {[1..n -> Tok] : n \in 0..MaxReplyLen}
PrevTexts == {None, Some(<<>>), Some(<<"WS">>), Some(<<"TXT">>), Some(seed_schematic),
              Some(<<"OPEN", "VER9", "SHEET", "CLOSE">>)}

WriteInit ==
    /\ args = None
    /\ ret = None
    /\ max_iters = 1
    /\ validator_use_llm = FALSE
    /\ exe = FALSE
    /\ parts = <<>>
    /\ allowed = <<>>
    /\ pc = "Generating"
    /\ iteration = 1
    /\ prev_text \in PrevTexts
    /\ issues \in {<<>>, <<"llm_issue">>}
    /\ history = <<>>
    /\ iter_counter = 0
    /\ file = None
    /\ readable = TRUE
    /\ erc_rc = None
    /\ erc_violations = None
    /\ erc_summary_lines = 0
    /\ erc_json = [kind |-> "none", n |-> 0]
    /\ erc_out = None
    /\ log = <<>>
    /\ oracle = "none"
    /\ parsed_text = <<>>

WriteCall == GenerateWith(ChatOutcomes(Replies), {TRUE})

WriteSpec == WriteInit /\ [][WriteCall]_vars

(***************************************************************************)
(* HistorySpec: the loop with a budget of MaxCalls iterations, the two     *)
(* checking phases reduced to their verdict.                               *)
(***************************************************************************)
HistoryInit ==
    /\ args = None
    /\ ret = None
    /\ max_iters = MaxCalls
    /\ validator_use_llm = FALSE
    /\ exe = TRUE
    /\ parts = <<>>
    /\ allowed = <<>>
    /\ pc = "Generating"
    /\ iteration = 1
    /\ prev_text = None
    /\ issues = <<>>
    /\ history = <<>>
    /\ iter_counter = 0
    /\ file = None
    /\ readable = TRUE
    /\ erc_rc = None
    /\ erc_violations = None
    /\ erc_summary_lines = 0
    /\ erc_json = [kind |-> "none", n |-> 0]
    /\ erc_out = None
    /\ log = <<>>
    /\ oracle = "none"
    /\ parsed_text = <<>>

HistoryGenerate == GenerateWith(ChatOutcomes({<<>>, <<"TXT">>}), {TRUE})

\* lines 95-140 with a validator and a rule checker that only say yes or no
HistoryChecks ==
    /\ pc = "Checking"
    /\ pc' = "Deciding"
    /\ issues' \in {<<>>, <<"llm_issue">>}
    /\ erc_rc' = Some(0)
    /\ erc_violations' = Some(0)
    /\ erc_summary_lines' = 1
    /\ erc_json' = [kind |-> "dict", n |-> 0]
    /\ UNCHANGED <<args, ret, max_iters, validator_use_llm, exe, parts, allowed, iteration, prev_text,
                   history, iter_counter, file, readable, erc_out, log, oracle,
                   parsed_text>>

HistoryNext == HistoryGenerate \/ HistoryChecks \/ Decide

HistorySpec == HistoryInit /\ [][HistoryNext]_vars

(***************************************************************************)
(* DiskSpec: one call of write at the grain of the file system.            *)
(* Path.write_text opens out_path with mode "w", which truncates the file, *)
(* then writes the text and closes; the open or the write may raise, and   *)
(* the process may be stopped in between.                                  *)
(***************************************************************************)
DiskInit ==
    /\ args = None
    /\ ret = None
    /\ max_iters = 2
    /\ validator_use_llm = FALSE
    /\ exe = FALSE
    /\ parts = <<>>
    /\ allowed = <<>>
    /\ pc = "Generating"
    /\ prev_text \in {None, Some(seed_schematic), Some(BareDoc), Some(GoodDoc)}
    /\ iteration = IF prev_text = None THEN 1 ELSE 2
    /\ issues \in {<<>>, <<"llm_issue">>}
    /\ history = <<>>
    /\ iter_counter = 0
    /\ file = prev_text
    /\ readable = TRUE
    /\ erc_rc = None
    /\ erc_violations = None
    /\ erc_summary_lines = 0
    /\ erc_json = [kind |-> "none", n |-> 0]
    /\ erc_out = None
    /\ log = <<>>
    /\ oracle = "none"
    /\ parsed_text = <<>>

\* write up to the choice of the text to persist (lines 121-136)
DiskGenerate ==
    /\ pc = "Generating"
    /\ \E o \in ChatOutcomes(LoopReplies) :
         LET res == write([history |-> history, log |-> log, iter_counter |-> iter_counter],
                          prev_text, issues, o)
         IN  /\ history' = res.w.history
             /\ log' = res.w.log
             /\ iter_counter' = res.w.iter_counter
             /\ parsed_text' = res.parsed
             /\ oracle' = ChatKind(o)
    /\ pc' = "Opening"
    /\ UNCHANGED <<args, ret, max_iters, validator_use_llm, exe, parts, allowed, iteration, prev_text,
                   issues, file, readable, erc_rc, erc_violations, erc_summary_lines,
                   erc_json, erc_out>>

\* out_path.write_text: open(out_path, "w") truncates the file, or raises
DiskOpen ==
    /\ pc = "Opening"
    /\ \/ file' = Some(<<>>) /\ pc' = "Writing"
       \/ file' = file /\ pc' = "WriteRaised"
    /\ UNCHANGED <<args, ret, max_iters, validator_use_llm, exe, parts, allowed, iteration, prev_text,
                   issues, history, iter_counter, readable, erc_rc, erc_violations,
                   erc_summary_lines, erc_json, erc_out, log, oracle, parsed_text>>

\* out_path.write_text: the text is written and the file closed, or the
\* write stops after k tokens of it
DiskWrite ==
    /\ pc = "Writing"
    /\ LET data == persisted(parsed_text, prev_text)
       IN  \E k \in 0..Len(data) :
              /\ file' = Some(SubSeq(data, 1, k))
              /\ pc' = IF k = Len(data) THEN "Checking" ELSE "WriteRaised"
    /\ UNCHANGED <<args, ret, max_iters, validator_use_llm, exe, parts, allowed, iteration, prev_text,
                   issues, history, iter_counter, readable, erc_rc, erc_violations,
                   erc_summary_lines, erc_json, erc_out, log, oracle, parsed_text>>

DiskNext == DiskGenerate \/ DiskOpen \/ DiskWrite

DiskSpec == DiskInit /\ [][DiskNext]_vars

(***************************************************************************)
(* CallbackSpec: the loop run with a progress callback.  Spec is the run   *)
(* with progress_cb = None, where _emit does nothing.  With a callback,    *)
(* _emit calls it, and the call returns (the step is the step of Spec) or  *)
(* raises, and the exception leaves run_orchestration.                     *)
(***************************************************************************)
\* _emit(progress_cb, msg) raises at the head of a phase (lines 80, 95, 115)
\* or on the acceptance message (line 143).  The calls of lines 99-112 and
\* 124-134 lie inside the checking phases and end the run the same way.
EmitRaises ==
    /\ \/ pc \in {"Generating", "Checking", "RuleChecking"}
       \/ pc = "Deciding" /\ accept(issues, erc_rc, erc_violations)
    /\ pc' = "CallbackRaised"
    /\ UNCHANGED <<args, ret, max_iters, validator_use_llm, exe, parts, allowed, iteration, prev_text,
                   issues, history, iter_counter, file, readable, erc_rc, erc_violations,
                   erc_summary_lines, erc_json, erc_out, log, oracle, parsed_text>>

CallbackNext == Next \/ EmitRaises

CallbackSpec == Init /\ [][CallbackNext]_vars

(***************************************************************************)
(* RagSpec: candidates_for_parts on any parts, catalog and search results. *)
(***************************************************************************)
RagInit ==
    /\ args = None
    /\ ret = None
    /\ max_iters = 1
    /\ validator_use_llm = FALSE
    /\ exe = FALSE
    /\ parts \in PartLists
    /\ allowed = <<>>
    /\ pc = "Start"
    /\ iteration = 1
    /\ prev_text = None
    /\ issues = <<>>
    /\ history = <<>>
    /\ iter_counter = 0
    /\ file = None
    /\ readable = TRUE
    /\ erc_rc = None
    /\ erc_violations = None
    /\ erc_summary_lines = 0
    /\ erc_json = [kind |-> "none", n |-> 0]
    /\ erc_out = None
    /\ log = <<>>
    /\ oracle = "none"
    /\ parsed_text = <<>>

\* line 42, for either cap
Candidates ==
    /\ pc = "Start"
    /\ \E max_per_lib \in {1, 10}, idx \in Catalogs, chroma \in ChromaSearches :
          allowed' = candidates_for_parts(parts, max_per_lib, idx, chroma)
    /\ pc' = "Generating"
    /\ UNCHANGED <<args, ret, max_iters, validator_use_llm, exe, parts, iteration, prev_text,
                   issues, history, iter_counter, file, readable, erc_rc, erc_violations,
                   erc_summary_lines, erc_json, erc_out, log, oracle, parsed_text>>

RagSpec == RagInit /\ [][Candidates]_vars

(***************************************************************************)
(* ValidateSpec: validate on any document of up to MaxDocLen tokens and on *)
(* the seed documents, run once and run again on the unchanged file.       *)
(***************************************************************************)
MaxDocLen == 3
ValTok == {"OPEN", "VER9", "LIBSYMS", "LIBSYMS0", "PAD"} \cup SymTok
Titles == {<<>>, <<"TXT">>, <<"TXT", "WS", "TXT">>, <<"TXT", "LIBID", "TXT">>}
ValidateDocs == UNION {[1..n -> ValTok] : n \in 0..MaxDocLen}
                \cup {seed_schematic_titled(title) : title \in Titles}

ValidateInit ==
    /\ args = None
    /\ ret = None
    /\ max_iters = 1
    /\ validator_use_llm \in BOOLEAN
    /\ exe = FALSE
    /\ parts = <<>>
    /\ allowed = <<>>
    /\ pc = "Checking"
    /\ iteration = 1
    /\ file \in {Some(doc) : doc \in ValidateDocs}
    /\ readable \in BOOLEAN
    /\ prev_text = IF readable THEN file ELSE None
    /\ issues = <<>>
    /\ history = <<>>
    /\ iter_counter = 1
    /\ erc_rc = None
    /\ erc_violations = None
    /\ erc_summary_lines = 0
    /\ erc_json = [kind |-> "none", n |-> 0]
    /\ erc_out = None
    /\ log = <<>>
    /\ oracle = "none"
    /\ parsed_text = <<>>

\* validator.validate(sch_path), a first time or again
Validate ==
    /\ pc \in {"Checking", "Validated"}
    /\ \E v \in (IF validator_use_llm THEN LlmOutcomes
                 ELSE {[raised |-> FALSE, kind |-> "empty"]}) :
         LET res == validate(validator_use_llm, IF readable THEN file ELSE None, v)
         IN  IF res.raised
             THEN /\ pc' = "ValidatorRaised"
                  /\ UNCHANGED issues
             ELSE /\ pc' = "Validated"
                  /\ issues' = res.issues
    /\ UNCHANGED <<args, ret, max_iters, validator_use_llm, exe, parts, allowed, iteration, prev_text,
                   history, iter_counter, file, readable, erc_rc, erc_violations,
                   erc_summary_lines, erc_json, erc_out, log, oracle, parsed_text>>

ValidateSpec == ValidateInit /\ [][Validate]_vars

(***************************************************************************)
(* CheckSpec: one iteration of the loop for circuits of up to two          *)
(* resistors.                                                              *)
(***************************************************************************)
CheckParts ==
    LET R(ref) == [ref |-> ref, type |-> "r", value |-> None]
    IN  {<<>>, <<R("R1")>>, <<R("R2")>>, <<R("R1"), R("R2")>>, <<R("R2"), R("R1")>>}
CheckReplies ==
    { <<>>,
      BareDoc,
      <<"OPEN", "VER9", "LIBSYMS", "SYM_R1", "SHEET", "CLOSE">>,
      <<"OPEN", "VER9", "LIBSYMS", "SYM_R1", "SYM_R2", "SHEET", "CLOSE">>,
      <<"OPEN", "VER9", "LIBSYMS", "SYM_R2", "PAD", "SYM_R1", "SHEET", "CLOSE">>,
      <<"OPEN", "VER9", "LIBSYMS", "SYM_R1", "PAD", "REF_R2", "SHEET", "CLOSE">>,
      <<"OPEN", "VER9", "REF_R2", "SHEET", "CLOSE">> }

CheckInit ==
    /\ args = None
    /\ ret = None
    /\ max_iters = 1
    /\ validator_use_llm \in BOOLEAN
    /\ exe \in BOOLEAN
    /\ parts \in CheckParts
    /\ allowed = candidates_for_parts(parts, 10, {<<"Device", "R">>}, NoHits)
    /\ pc = "Generating"
    /\ iteration = 1
    /\ prev_text = None
    /\ issues = <<>>
    /\ history = <<>>
    /\ iter_counter = 0
    /\ file = None
    /\ readable = TRUE
    /\ erc_rc = None
    /\ erc_violations = None
    /\ erc_summary_lines = 0
    /\ erc_json = [kind |-> "none", n |-> 0]
    /\ erc_out = None
    /\ log = <<>>
    /\ oracle = "none"
    /\ parsed_text = <<>>

CheckGenerate == GenerateWith(ChatOutcomes(CheckReplies), BOOLEAN)

CheckNext == CheckGenerate \/ Check \/ RuleCheck \/ Decide

CheckSpec == CheckInit /\ [][CheckNext]_vars

(***************************************************************************)
(* core/ingest.py.  A JSON value is a record: t its type, s its text (for   *)
(* a string) or its "name" member (for the device object).                 *)
(***************************************************************************)
MaxComps == 1        \* longest list of a JSON document of IngestSpec

JAbsent == [t |-> "absent", s |-> ""]
JNum == [t |-> "num", s |-> "5"]
JStr(str) == [t |-> "str", s |-> str]
\* isinstance(v, str) and v
TruthyStr(v) == v.t = "str" /\ v.s # ""

\* lines 8-44.  raised: .lower() of a category that is a number, or .get of
\* a component that is not an object (caught at line 54); f"U{index+1}" is
\* the default id.
map_component_to_partspec(component, index) ==
    IF component.t # "dict" \/ component.category.t = "num"
    THEN [raised |-> TRUE, part |-> [ref |-> "", type |-> "", symbol |-> None, value |-> None]]
    ELSE LET cid == IF component.id.t = "absent" THEN <<"U1", "U2", "U3">>[index + 1]
                    ELSE component.id.s
             category == IF TruthyStr(component.category)
                         THEN Lower(component.category.s) ELSE ""
             value == IF component.value.t = "str" THEN Some(component.value.s) ELSE None
             guess ==
                 IF category = "passive"
                 THEN IF StartsWith(Upper(cid), "C") THEN <<"C", Some("Device:C")>>
                      ELSE <<"R", Some("Device:R")>>
                 ELSE IF category \in {"microcontroller", "processor", "mcu"}
                 THEN <<"MCU", Some("Device:U")>>
                 ELSE IF category \in {"sensor", "power-protection", "power-supply"}
                 THEN <<"U", Some("Device:U")>>
                 ELSE IF category = "connector"
                 THEN <<"Conn", Some("Connector_Generic:Conn_01x02")>>
                 ELSE <<"U", None>>
         IN  [raised |-> FALSE,
              part |-> [ref |-> cid, type |-> guess[1], symbol |-> guess[2],
                        value |-> value]]

\* lines 59-69: the names of the entries under the keys tried, each once, in
\* order; acc is both nets and seen
RECURSIVE net_names(_, _, _)
net_names(entries, ks, acc) ==
    IF entries = <<>> THEN acc
    ELSE LET n == Head(entries)
             one(a, k) == LET name == IF k = "id" THEN n.id ELSE n.name
                          IN  IF TruthyStr(name) /\ name.s \notin {a[i] : i \in 1..Len(a)}
                              THEN Append(a, name.s) ELSE a
             a1 == IF "id" \in ks THEN one(acc, "id") ELSE acc
         IN  net_names(Tail(entries), ks, one(a1, "name"))

\* lines 50-55: the parts of the components that map without an exception
RECURSIVE mapped_parts(_, _)
mapped_parts(components, idx) ==
    IF idx >= Len(components) THEN <<>>
    ELSE LET m == map_component_to_partspec(components[idx + 1], idx)
         IN  (IF m.raised THEN <<>> ELSE <<m.part>>) \o mapped_parts(components, idx + 1)

\* a list whose every entry is an object
ObjList(v) == v.t = "list" /\ \A i \in 1..Len(v.v) : v.v[i].t = "dict"
Raised(what) == [raised |-> Some(what), title |-> None, parts |-> <<>>, nets |-> <<>>]

\* lines 47-74.  AttributeError: .get of a device, a net or a power domain
\* that is not an object; TypeError: a member that is not a list is iterated.
convert_pseudo_cad_schema(data) ==
    IF data.device.t \notin {"absent", "dict"} THEN Raised("AttributeError")
    ELSE IF data.components.t # "list" THEN Raised("TypeError")
    ELSE IF data.nets.t \notin {"absent", "list"} \/ data.powerDomains.t \notin {"absent", "list"}
    THEN Raised("TypeError")
    ELSE IF (data.nets.t = "list" /\ ~ObjList(data.nets))
            \/ (data.powerDomains.t = "list" /\ ~ObjList(data.powerDomains))
    THEN Raised("AttributeError")
    ELSE LET n1 == net_names(data.nets.v, {"id", "name"}, <<>>)
             n2 == net_names(data.powerDomains.v, {"name"}, n1)
             nets == IF "GND" \in {n2[i] : i \in 1..Len(n2)} THEN n2 ELSE Append(n2, "GND")
         IN  [raised |-> None,
              title |-> IF data.device.s # "" THEN Some(data.device.s) ELSE Some("Untitled"),
              parts |-> mapped_parts(data.components.v, 0),
              nets |-> nets]

\* line 83, CircuitSpec(**raw) with the field types of core/models.py 9-26:
\* parts must be a list of objects with string ref and type, nets a list of
\* objects with a string name, title a string or null
circuit_spec(raw) ==
    LET parts_ok == raw.parts.t = "absent"
                    \/ (ObjList(raw.parts) /\ \A i \in 1..Len(raw.parts.v) :
                            raw.parts.v[i].id.t = "str" /\ raw.parts.v[i].category.t = "str")
        nets_ok == raw.nets.t = "absent"
                   \/ (ObjList(raw.nets) /\ \A i \in 1..Len(raw.nets.v) :
                            raw.nets.v[i].name.t = "str")
    IN  IF ~(parts_ok /\ nets_ok /\ raw.title.t \in {"absent", "null", "str"})
        THEN Raised("ValidationError")
        ELSE [raised |-> None,
              title |-> IF raw.title.t = "str" THEN Some(raw.title.s) ELSE None,
              parts |-> [i \in 1..Len(raw.parts.v) |->
                            [ref |-> raw.parts.v[i].id.s, type |-> raw.parts.v[i].category.s,
                             symbol |-> None, value |-> None]],
              nets |-> [i \in 1..Len(raw.nets.v) |-> raw.nets.v[i].name.s]]

\* lines 77-84
load_circuit_spec(f) ==
    IF ~f.readable THEN Raised("OSError")
    ELSE IF f.json.t = "malformed" THEN Raised("JSONDecodeError")
    ELSE IF f.json.t = "dict" /\ f.json.components.t # "absent"
    THEN convert_pseudo_cad_schema(f.json)
    ELSE IF f.json.t = "dict" /\ (f.json.parts.t # "absent" \/ f.json.nets.t # "absent")
    THEN circuit_spec(f.json)
    ELSE [raised |-> None, title |-> Some("Untitled"), parts |-> <<>>, nets |-> <<>>]

\* the input files: a list member of a document is absent, null, a number
\* or a list of up to MaxComps entries; a part of the native shape is
\* written with the fields of a component (id its ref, category its type)
Lists(entries) ==
    {[t |-> k, v |-> <<>>] : k \in {"absent", "null", "num"}}
        \cup {[t |-> "list", v |-> l] : l \in UNION {[1..n -> entries] : n \in 0..MaxComps}}
Components ==
    { [t |-> "str", id |-> JAbsent, category |-> JAbsent, value |-> JAbsent],
      [t |-> "dict", id |-> JStr("C1"), category |-> JStr("Passive"), value |-> JAbsent],
      [t |-> "dict", id |-> JStr("R1"), category |-> JStr("passive"), value |-> JAbsent],
      [t |-> "dict", id |-> JAbsent, category |-> JStr("MCU"), value |-> JStr("ESP32")],
      [t |-> "dict", id |-> JStr("R1"), category |-> JStr("connector"), value |-> JAbsent],
      [t |-> "dict", id |-> JStr("R1"), category |-> JNum, value |-> JAbsent],
      [t |-> "dict", id |-> JAbsent, category |-> JAbsent, value |-> JAbsent] }
NetEntries ==
    { [t |-> "str", id |-> JAbsent, name |-> JAbsent],
      [t |-> "dict", id |-> JStr("N1"), name |-> JStr("GND")],
      [t |-> "dict", id |-> JStr("N1"), name |-> JStr("N1")],
      [t |-> "dict", id |-> JAbsent, name |-> JNum] }
Empty == [t |-> "absent", v |-> <<>>]
NoDoc(kind) == [t |-> kind, title |-> JAbsent, device |-> JAbsent, components |-> Empty,
                parts |-> Empty, nets |-> Empty, powerDomains |-> Empty]
JsonDocs ==
    {NoDoc(k) : k \in {"malformed", "list", "dict"}}
        \cup {[NoDoc("dict") EXCEPT !.device = dv, !.components = c, !.nets = n,
                                    !.powerDomains = pd] :
                dv \in {JAbsent, [t |-> "null", s |-> ""], [t |-> "dict", s |-> ""],
                        [t |-> "dict", s |-> "ESP32"]},
                c \in Lists(Components) \ {Empty}, n \in Lists(NetEntries),
                pd \in {Empty, [t |-> "list", v |-> <<[t |-> "dict", id |-> JAbsent,
                                                      name |-> JStr("N1")]>>]}}
        \cup {[NoDoc("dict") EXCEPT !.title = ti, !.parts = p, !.nets = n] :
                ti \in {JAbsent, JNum, JStr("ESP32")},
                p \in Lists(Components), n \in Lists(NetEntries)}
InputFiles == [readable : {TRUE}, json : JsonDocs] \cup {[readable |-> FALSE, json |-> NoDoc("malformed")]}

\* the variables of run_orchestration, which the calls studied on their own
\* leave alone
loop_vars == <<max_iters, validator_use_llm, exe, parts, allowed, iteration,
               prev_text, issues, history, iter_counter, file, readable, erc_rc,
               erc_violations, erc_summary_lines, erc_json, erc_out,
               log, oracle, parsed_text>>
LoopIdle ==
    /\ max_iters = 1
    /\ validator_use_llm = FALSE
    /\ exe = FALSE
    /\ parts = <<>>
    /\ allowed = <<>>
    /\ iteration = 1
    /\ prev_text = None
    /\ issues = <<>>
    /\ history = <<>>
    /\ iter_counter = 0
    /\ file = None
    /\ readable = TRUE
    /\ erc_rc = None
    /\ erc_violations = None
    /\ erc_summary_lines = 0
    /\ erc_json = [kind |-> "none", n |-> 0]
    /\ erc_out = None
    /\ log = <<>>
    /\ oracle = "none"
    /\ parsed_text = <<>>

IngestInit == LoopIdle /\ pc = "Start" /\ args \in InputFiles /\ ret = None

\* main.py / gui: circuit = load_circuit_spec(path)
Load ==
    /\ pc = "Start"
    /\ ret' = load_circuit_spec(args)
    /\ pc' = "Returned"
    /\ UNCHANGED <<args, loop_vars>>

IngestSpec == IngestInit /\ [][Load]_vars

(***************************************************************************)
(* kicad/library.py, resolve_lib_id.  An identifier "lib:name" is the pair *)
(* <<lib, name>> (as in the candidate table); a string without ":" is the  *)
(* one-element sequence <<name>>.                                          *)
(***************************************************************************)
\* lines 75-91: the candidates of the type table
type_candidates(part_type) ==
    LET t == Upper(part_type)
    IN  IF t \in {"R", "C", "L", "LED"} THEN << <<"Device", t>> >>
        ELSE IF t \in {"CONN", "CONNECTOR"}
        THEN [i \in 1..3 |-> <<"Connector_Generic", <<"Conn_01x02", "Conn_01x03", "Conn_01x04">>[i]>>]
        ELSE IF t \in {"MCU", "U"} THEN << <<"Device", "U">> >>
        ELSE <<>>

\* the variant that tries the value before the type table
resolve_lib_id_value_first(preferred, part_type, value, index) ==
    LET candidates == (IF value # None /\ TheValue(value) # ""
                       THEN << <<"Device", TheValue(value)>>,
                               <<"Connector_Generic", TheValue(value)>> >>
                       ELSE <<>>) \o type_candidates(part_type)
        found == SelectSeq(candidates, LAMBDA c : c \in index)
    IN  IF preferred # None /\ Len(TheValue(preferred)) = 2 THEN TheValue(preferred)
        ELSE IF found # <<>> THEN found[1]
        ELSE IF preferred # None /\ TheValue(preferred) # <<"">>
                /\ <<"Device", TheValue(preferred)[1]>> \in index
        THEN <<"Device", TheValue(preferred)[1]>>
        ELSE <<"Device", "Unknown">>

\* lines 67-111; index is index_symbols(), the set of the pairs catalogued
resolve_lib_id(preferred, part_type, value, index) ==
    LET candidates == type_candidates(part_type)
                      \o (IF value # None /\ TheValue(value) # ""
                          THEN << <<"Device", TheValue(value)>>,
                                  <<"Connector_Generic", TheValue(value)>> >>
                          ELSE <<>>)
        found == SelectSeq(candidates, LAMBDA c : c \in index)
    IN  IF preferred # None /\ Len(TheValue(preferred)) = 2 THEN TheValue(preferred)
        ELSE IF found # <<>> THEN found[1]
        ELSE IF preferred # None /\ TheValue(preferred) # <<"">>
                /\ <<"Device", TheValue(preferred)[1]>> \in index
        THEN <<"Device", TheValue(preferred)[1]>>
        ELSE <<"Device", "Unknown">>

\* the calls of ResolveSpec: every catalog over six symbols
ResolveCatalogs ==
    SUBSET {<<"Device", "R">>, <<"Device", "U">>, <<"Device", "LM358">>,
            <<"Connector_Generic", "Conn_01x03">>, <<"Connector_Generic", "Conn_01x04">>,
            <<"Connector_Generic", "LM358">>}
ResolveInit ==
    /\ LoopIdle
    /\ pc = "Start"
    /\ args \in [preferred : {None, Some(<<"">>), Some(<<"R">>), Some(<<"LM358">>),
                              Some(<<"Device", "U">>), Some(<<"Custom", "LM358">>)},
                 part_type : {"r", "R", "Conn", "MCU", "U", ""},
                 value : {None, Some(""), Some("LM358"), Some("R")},
                 index : ResolveCatalogs]
    /\ ret = None

\* architect_agent.py 30, 34: a call of resolve_lib_id
Resolve ==
    /\ pc = "Start"
    /\ ret' = resolve_lib_id(args.preferred, args.part_type, args.value, args.index)
    /\ pc' = "Returned"
    /\ UNCHANGED <<args, loop_vars>>

ResolveSpec == ResolveInit /\ [][Resolve]_vars

(***************************************************************************)
(* agents/architect_agent.py.  The designs live in a list of objects; a    *)
(* design is named by its place in the list, so that a change made through *)
(* one name is seen through every name of the same object.                 *)
(***************************************************************************)
MaxRevisions == 2    \* revise_design calls after produce_design
MaxEntries == 1      \* longest "parts" list of an oracle reply

\* d.get(key, default) on a dict kept as its list of items
dict_get(d, key, default) ==
    IF \E i \in 1..Len(d) : d[i].key = key
    THEN d[CHOOSE i \in 1..Len(d) : d[i].key = key].value
    ELSE default

\* model_copy that hands back the object itself
model_copy_alias(objs, id) == [objs |-> objs, id |-> id]

\* design.model_copy(deep=True): a new object with the same content
model_copy(objs, id) == [objs |-> Append(objs, objs[id]), id |-> Len(objs) + 1]

\* a move that leaves the box where it was
moved_keeping_bbox(p, x, y) == [p EXCEPT !.position = <<x, y>>]

\* lines 80-84 and 227-229: the part at (x, y), its box recentred; an empty
\* box gets the size 18 x 10 (line 83; no box is empty at line 228)
moved(p, x, y) ==
    LET bw == IF p.bbox[3] = 0 \/ p.bbox[4] = 0 THEN 18 ELSE p.bbox[3]
        bh == IF p.bbox[3] = 0 \/ p.bbox[4] = 0 THEN 10 ELSE p.bbox[4]
    IN  [p EXCEPT !.position = <<x, y>>,
                  !.bbox = <<x - (bw \div 2), y - (bh \div 2), bw, bh>>]

\* every net of more, in order, that nets does not hold yet
RECURSIVE add_nets(_, _)
add_nets(nets, more) ==
    IF more = <<>> THEN nets
    ELSE add_nets(IF more[1] = "" \/ \E i \in 1..Len(nets) : nets[i] = more[1]
                  THEN nets ELSE Append(nets, more[1]), Tail(more))

\* lines 60-93; data.parts are the entries with a "ref", sel is
\* entry.get("lib_id") or entry.get("symbol"), pos and rot likewise
apply_positions_and_symbols_from_json(objs, id, data, allowed_by_ref) ==
    LET c == model_copy(objs, id)
        updated == c.objs[c.id]
        by_ref(r) == LET is == {i \in 1..Len(data.parts) : data.parts[i].ref = r}
                     IN  IF is = {} THEN None
                         ELSE Some(data.parts[CHOOSE i \in is : \A j \in is : j <= i])
        upd(p) ==
            IF by_ref(p.ref) = None THEN p
            ELSE LET entry == TheValue(by_ref(p.ref))
                     allowed_ids == dict_get(allowed_by_ref, p.ref, <<>>)
                     p1 == IF allowed_ids # <<>>
                           THEN IF entry.sel # None
                                   /\ \E i \in 1..Len(allowed_ids) : allowed_ids[i] = TheValue(entry.sel)
                                THEN [p EXCEPT !.symbol = TheValue(entry.sel)]
                                ELSE [p EXCEPT !.symbol = allowed_ids[1]]
                           ELSE IF entry.sel # None
                           THEN [p EXCEPT !.symbol = TheValue(entry.sel)] ELSE p
                     p2 == IF entry.pos # None
                           THEN moved(p1, TheValue(entry.pos)[1], TheValue(entry.pos)[2])
                           ELSE p1
                 IN  IF entry.rot # None THEN [p2 EXCEPT !.rotation = TheValue(entry.rot)]
                     ELSE p2
        new == [parts |-> [i \in 1..Len(updated.parts) |-> upd(updated.parts[i])],
                nets |-> IF data.nets = None THEN updated.nets
                         ELSE add_nets(updated.nets, TheValue(data.nets))]
    IN  [objs |-> [c.objs EXCEPT ![c.id] = new], id |-> c.id]

\* lines 28-35 with DEFAULT_SYMBOL_MAP.get(part_type, "Device:U") of lines
\* 10-20: the name after ":" is the preferred name
choose_symbol(part_type, fallback_symbol, value, index) ==
    IF fallback_symbol # None /\ TheValue(fallback_symbol) # <<"">>
    THEN resolve_lib_id(fallback_symbol, part_type, value, index)
    ELSE LET sym == CASE part_type \in {"R", "C", "L", "LED", "D"} -> part_type
                      [] part_type = "Q" -> "Q_NPN_BCE"
                      [] part_type = "Conn" -> "Conn_01x04"
                      [] OTHER -> "U"
         IN  resolve_lib_id(Some(<<sym>>), part_type, value, index)

\* lines 95-118, with _grid_position of lines 37-45
base_design(circuit, index) ==
    LET placed(idx) ==
            LET part == circuit.parts[idx + 1]
                position == IF part.position # None THEN TheValue(part.position)
                            ELSE <<50 + (idx % 6) * 30, 50 + (idx \div 6) * 25>>
            IN  [ref |-> part.ref,
                 symbol |-> choose_symbol(part.type, part.symbol, part.value, index),
                 value |-> part.value, position |-> position, rotation |-> part.rotation,
                 pins |-> part.pins,
                 bbox |-> <<position[1] - (18 \div 2), position[2] - (10 \div 2), 18, 10>>]
        placed_parts == [i \in 1..Len(circuit.parts) |-> placed(i - 1)]
        pin_nets[i \in 0..Len(placed_parts)] ==
            IF i = 0 THEN <<>> ELSE pin_nets[i - 1] \o placed_parts[i].pins
    IN  [parts |-> placed_parts,
         nets |-> add_nets(circuit.nets, pin_nets[Len(placed_parts)])]

\* lines 120-165.  o is what the oracle call and _extract_json gave: kind
\* "raise" (chat raised), "none" (no JSON object, or an empty one), "bad"
\* (_apply_positions_and_symbols_from_json raised on a member of the wrong
\* type) or "data"
produce_design(circuit, use_llm, o, index, chroma) ==
    LET base == base_design(circuit, index)
        table == candidates_for_parts(circuit.parts, 5, index, chroma)
    IN  IF use_llm /\ o.kind = "data"
        THEN apply_positions_and_symbols_from_json(<<base>>, 1, o.data, table)
        ELSE [objs |-> <<base>>, id |-> 1]

\* lines 167-240.  An issue is what the code reads of its text: whether it
\* holds "overlap", whether it holds "unknown net", and the text between its
\* first and last "'" (None without two quotes)
revise_design(objs, id, iss, use_llm, o, index, chroma) ==
    LET c == model_copy(objs, id)
        updated == c.objs[c.id]
        table == candidates_for_parts(
                       [i \in 1..Len(updated.parts) |->
                           [ref |-> updated.parts[i].ref, type |-> "",
                            value |-> updated.parts[i].value]], 5, index, chroma)
        shifted(p, idx) == moved(p, p.position[1] + (idx % 3) * 10,
                                    p.position[2] + (idx % 3) * 8)
        parts1 == IF \E i \in 1..Len(iss) : iss[i].overlap
                  THEN [i \in 1..Len(updated.parts) |-> shifted(updated.parts[i], i - 1)]
                  ELSE updated.parts
        named == SelectSeq(iss, LAMBDA i : i.unknown_net /\ i.quoted # None)
        nets1 == add_nets(updated.nets, [i \in 1..Len(named) |-> TheValue(named[i].quoted)])
    IN  IF use_llm /\ o.kind = "data"
        THEN apply_positions_and_symbols_from_json(c.objs, c.id, o.data, table)
        ELSE [objs |-> [c.objs EXCEPT ![c.id] = [parts |-> parts1, nets |-> nets1]],
              id |-> c.id]

\* the circuits, replies and issue lists of ArchitectSpec
ArchParts ==
    { <<>>,
      <<[ref |-> "R1", type |-> "r", symbol |-> None, value |-> None,
         position |-> None, rotation |-> 0, pins |-> <<>>]>>,
      <<[ref |-> "R1", type |-> "R", symbol |-> Some(<<"Device", "R">>), value |-> None,
         position |-> Some(<<0, 0>>), rotation |-> 90, pins |-> <<"VCC">>],
        [ref |-> "u1", type |-> "U", symbol |-> Some(<<"LM358">>), value |-> Some("ESP32"),
         position |-> None, rotation |-> 0, pins |-> <<>>]>>,
      <<[ref |-> "u1", type |-> "MCU", symbol |-> None, value |-> Some("ESP32"),
         position |-> None, rotation |-> 0, pins |-> <<"GND">>],
        [ref |-> "R1", type |-> "conn", symbol |-> Some(<<"Custom", "LM358">>),
         value |-> Some(" "), position |-> Some(<<55, 50>>), rotation |-> 0,
         pins |-> <<>>]>> }
Entries ==
    { [ref |-> "R1", sel |-> None, pos |-> Some(<<-5, 7>>), rot |-> None],
      [ref |-> "R1", sel |-> Some(<<"Device", "R">>), pos |-> None, rot |-> None],
      [ref |-> "R1", sel |-> Some(<<"Device", "U">>), pos |-> None, rot |-> None],
      [ref |-> "u1", sel |-> None, pos |-> None, rot |-> None],
      [ref |-> "u1", sel |-> Some(<<"MCU_Espressif", "ESP32-WROOM-32">>),
       pos |-> Some(<<80, 50>>), rot |-> Some(90)] }
\* without the oracle (use_llm off) no call is made
OracleData(use_llm) ==
    IF ~use_llm THEN {[kind |-> "none", data |-> [parts |-> <<>>, nets |-> None]]}
    ELSE {[kind |-> k, data |-> [parts |-> <<>>, nets |-> None]] :
             k \in {"raise", "none", "bad"}}
         \cup {[kind |-> "data", data |-> [parts |-> es, nets |-> None]] :
                 es \in UNION {[1..k -> Entries] : k \in 0..MaxEntries}}
         \cup {[kind |-> "data", data |-> [parts |-> es, nets |-> Some(<<"GND", "N1">>)]] :
                 es \in UNION {[1..k -> Entries] : k \in 0..1}}
IssueLists ==
    { <<>>,
      <<[overlap |-> TRUE, unknown_net |-> FALSE, quoted |-> None]>>,
      <<[overlap |-> FALSE, unknown_net |-> TRUE, quoted |-> Some("N1")],
        [overlap |-> FALSE, unknown_net |-> TRUE, quoted |-> None]>> }

ArchitectInit ==
    /\ LoopIdle
    /\ pc = "Start"
    /\ args \in [parts : ArchParts, nets : {<<"GND">>}, use_llm : BOOLEAN,
                 index : {{<<"Device", "R">>},
                          {<<"Device", "R">>, <<"Device", "U">>,
                           <<"MCU_Espressif", "ESP32-WROOM-32">>}}]
    /\ ret = None

\* what a call left: the design passed in as it was before the call and as
\* it is after it, the design returned, the reply applied (if one was) and
\* the table it was checked against
Outcome(n, before, r, applied, table) ==
    [n |-> n, before |-> before, input |-> r.objs[1], output |-> r.objs[r.id],
     applied |-> applied, allowed |-> table]

\* design = agent.produce_design(circuit)
Produce ==
    /\ pc = "Start"
    /\ \E o \in OracleData(args.use_llm) :
          ret' = Outcome(0, base_design(args, args.index),
                         produce_design(args, args.use_llm, o, args.index, NoHits),
                         IF args.use_llm /\ o.kind = "data" THEN Some(o.data) ELSE None,
                         candidates_for_parts(args.parts, 5, args.index, NoHits))
    /\ pc' = "Designed"
    /\ UNCHANGED <<args, loop_vars>>

\* design = agent.revise_design(design, issues), MaxRevisions times at most;
\* the issues of a call whose reply is applied only enter the prompt
Revise ==
    /\ pc = "Designed"
    /\ ret.n < MaxRevisions
    /\ \E o \in OracleData(args.use_llm) :
       \E iss \in IF o.kind = "data" THEN {<<>>} ELSE IssueLists :
          ret' = Outcome(ret.n + 1, ret.output,
                         revise_design(<<ret.output>>, 1, iss, args.use_llm, o,
                                       args.index, NoHits),
                         IF args.use_llm /\ o.kind = "data" THEN Some(o.data) ELSE None,
                         candidates_for_parts(
                             [i \in 1..Len(ret.output.parts) |->
                                 [ref |-> ret.output.parts[i].ref, type |-> "",
                                  value |-> ret.output.parts[i].value]],
                             5, args.index, NoHits))
    /\ UNCHANGED <<pc, args, loop_vars>>

ArchitectNext == Produce \/ Revise
ArchitectSpec == ArchitectInit /\ [][ArchitectNext]_vars

\* gpt_writer.py 128-130: one generate_text call of a fresh writer, for any
\* outcome of the oracle call
GenerateTextInit == LoopIdle /\ pc = "Start" /\ args \in ChatOutcomes(Replies) /\ ret = None

GenerateText ==
    /\ pc = "Start"
    /\ LET res == generate_text([history |-> <<>>, log |-> <<>>, iter_counter |-> 1],
                                None, <<>>, args)
       IN  ret' = [parsed |-> res.parsed, raw |-> res.raw]
    /\ pc' = "Returned"
    /\ UNCHANGED <<args, loop_vars>>

GenerateTextSpec == GenerateTextInit /\ [][GenerateText]_vars

(***************************************************************************)
(* tools/openai_client.py, LLMClient.chat under tenacity's @retry          *)
(***************************************************************************)
stop_after_attempt == 3

\* the retry decision with a stop after the fourth attempt
after_attempt_four(attempts, o) ==
    [attempts |-> Append(attempts, o),
     reply |-> o.text,
     pc |-> IF ~o.raised THEN "Returned"
            ELSE IF Len(attempts) + 1 >= stop_after_attempt + 1 THEN "Raised"
            ELSE "Calling"]

\* line 21 around lines 40-41: the attempt ended as o; a value is returned
\* as it is (content or ""), an exception is retried until the attempt
\* number reaches stop_after_attempt, and then RetryError is raised
after_attempt(attempts, o) ==
    [attempts |-> Append(attempts, o),
     reply |-> o.text,
     pc |-> IF ~o.raised THEN "Returned"
            ELSE IF Len(attempts) + 1 >= stop_after_attempt THEN "Raised"
            ELSE "Calling"]

\* a chat call; client is self._client
ChatInit ==
    /\ LoopIdle
    /\ pc = "Calling"
    /\ args \in [client : BOOLEAN]
    /\ ret = [attempts |-> <<>>, reply |-> <<>>]

\* lines 23-24: without a client, "" is returned and the oracle is not tried
ChatOffline ==
    /\ pc = "Calling"
    /\ ~args.client
    /\ pc' = "Returned"
    /\ UNCHANGED <<args, ret, loop_vars>>

\* lines 25-41: one attempt, ending in an exception or in a reply
ChatAttempt ==
    /\ pc = "Calling"
    /\ args.client
    /\ \E o \in ChatOutcomes(Replies) :
          LET a == after_attempt(ret.attempts, o)
          IN  /\ ret' = [attempts |-> a.attempts, reply |-> a.reply]
              /\ pc' = a.pc
    /\ UNCHANGED <<args, loop_vars>>

ChatNext == ChatOffline \/ ChatAttempt
ChatSpec == ChatInit /\ [][ChatNext]_vars

\* rag.py 113-114: one candidates_for_part call, for any catalog and any
\* behaviour of the similarity search
RagPartInit ==
    /\ LoopIdle
    /\ pc = "Start"
    /\ args \in [part : PartSpecs, max_per_lib : {1, 10}, idx : Catalogs,
                 chroma : ChromaSearches]
    /\ ret = None

CandidatesForPart ==
    /\ pc = "Start"
    /\ ret' = candidates_for_part(args.part, args.max_per_lib, args.idx, args.chroma)
    /\ pc' = "Returned"
    /\ UNCHANGED <<args, loop_vars>>

RagPartSpec == RagPartInit /\ [][CandidatesForPart]_vars

\* validator_agent.py 82 on a document that instantiates a symbol of the
\* allowed list: whether the identifier is among the invalids
CheckAllowed ==
    /\ pc = "Returned"
    /\ \E i \in 1..Len(ret) :
          ret' = [allowed |-> ret, lib_id |-> lib_id_text(ret[i]),
                  invalid |-> InvalidLibId(lib_id_text(ret[i]))]
    /\ pc' = "Checked"
    /\ UNCHANGED <<args, loop_vars>>

\* candidates_for_part, then the validator on a use of one of the candidates
SentinelSpec == RagPartInit /\ [][CandidatesForPart \/ CheckAllowed]_vars

(***************************************************************************)
(* gui/app.py.  The worker thread emits signals; a signal emitted off the  *)
(* interactive thread is posted to that thread's event queue and its slot  *)
(* runs when the event loop takes it.                                      *)
(***************************************************************************)
\* an emit that puts the event before the waiting ones
emit_first(queue, sig, text) == <<[sig |-> sig, text |-> text]>> \o queue

\* lines 26, 34, 36: signal.emit(text) from the worker thread
emit(queue, sig, text) == Append(queue, [sig |-> sig, text |-> text])

\* line 32: the call binds its arguments to the parameters of lines 23-29;
\* a keyword that names no parameter raises TypeError before the body runs
call_raises ==
    {"max_iters", "progress_cb", "use_llm"}
        \ {"json_path", "out_dir", "max_iters", "progress_cb", "validator_use_llm"} # {}

\* the window with a file selected and no worker running
GuiInit ==
    /\ LoopIdle
    /\ pc = "Idle"
    /\ args \in InputFiles
    /\ ret = [queue |-> <<>>, emitted |-> <<>>, log |-> <<>>, started |-> FALSE]

\* lines 76-85: Run is clicked
RunPipeline ==
    /\ pc = "Idle"
    /\ ret' = [ret EXCEPT !.log = Append(@, [sig |-> "direct", text |-> "Starting pipeline..."])]
    /\ pc' = "Reading"
    /\ UNCHANGED <<args, loop_vars>>

\* line 30
WorkerLog ==
    /\ pc = "Reading"
    /\ ret' = [ret EXCEPT !.queue = emit(@, "message", "Reading input JSON..."),
                          !.emitted = Append(@, [sig |-> "message",
                                                 text |-> "Reading input JSON..."])]
    /\ pc' = "Loading"
    /\ UNCHANGED <<args, loop_vars>>

\* lines 31, 35-36
WorkerLoad ==
    /\ pc = "Loading"
    /\ LET circuit == load_circuit_spec(args)
       IN  IF circuit.raised # None
           THEN /\ ret' = [ret EXCEPT
                            !.queue = emit(@, "error", TheValue(circuit.raised)),
                            !.emitted = Append(@, [sig |-> "error",
                                                   text |-> TheValue(circuit.raised)])]
                /\ pc' = "Finished"
           ELSE /\ ret' = ret
                /\ pc' = "Calling"
    /\ UNCHANGED <<args, loop_vars>>

\* lines 32-36: the call of run_orchestration; were it to return, its path
\* would be logged and carried by done
WorkerCall ==
    /\ pc = "Calling"
    /\ IF call_raises
       THEN ret' = [ret EXCEPT !.queue = emit(@, "error", "TypeError"),
                               !.emitted = Append(@, [sig |-> "error", text |-> "TypeError"])]
       ELSE ret' = [ret EXCEPT
                      !.started = TRUE,
                      !.queue = emit(emit(@, "message", "Schematic written"), "done", "sch"),
                      !.emitted = @ \o <<[sig |-> "message", text |-> "Schematic written"],
                                         [sig |-> "done", text |-> "sch"]>>]
    /\ pc' = "Finished"
    /\ UNCHANGED <<args, loop_vars>>

\* lines 81-83 with 73-74: the event loop runs the slot of the first event
Deliver ==
    /\ ret.queue # <<>>
    /\ ret' = [ret EXCEPT !.queue = Tail(@), !.log = Append(@, Head(ret.queue))]
    /\ UNCHANGED <<pc, args, loop_vars>>

GuiNext == RunPipeline \/ WorkerLog \/ WorkerLoad \/ WorkerCall \/ Deliver
GuiSpec == GuiInit /\ [][GuiNext]_vars

(***************************************************************************)
(* Properties                                                              *)
(***************************************************************************)
\* the candidate starts with the opening token and ends with ")"
WellFormed(c) == Len(c) > 0 /\ c[1] = "OPEN" /\ EndsParen(c[Len(c)])
\* a previous document was supplied and is not blank
NonBlank(prev) == prev # None /\ \E i \in 1..Len(TheValue(prev)) : TheValue(prev)[i] # "WS"

Terminated == pc \in {"Accepted", "Exhausted", "ValidatorRaised", "SummaryRaised"}
AllThree == issues = <<>> /\ erc_rc = Some(0) /\ erc_violations = Some(0)

\* C1: an iteration is accepted only from the deciding step of an iteration
\* whose merged issue list is empty, whose checker exit status is 0 and whose
\* violation count is exactly 0; when one of the three fails the deciding
\* step does not accept.
C1_AcceptOnlyIfAllThree ==
    /\ [](pc = "Accepted" => AllThree)
    /\ [][pc' = "Accepted" /\ pc # "Accepted" => pc = "Deciding" /\ AllThree]_vars
    /\ [][pc = "Deciding" /\ ~AllThree => pc' # "Accepted"]_vars

\* a run accepted in its second or a later iteration
C1_Witness == pc = "Accepted" /\ iteration >= 2 /\ AllThree

\* the violation count of the iteration cannot be determined: no parsable
\* structured report and no "Found N violations" in the free-text output
CountUndetermined ==
    /\ erc_json.kind = "none"
    /\ \/ erc_out = None
       \/ \A i \in 1..Len(TheValue(erc_out)) : ~IsFound(TheValue(erc_out)[i])

\* C2: an iteration whose violation count cannot be determined is never
\* accepted, on the structured path and on the free-text path.
C2_UndeterminedNeverAccepted == pc = "Accepted" => ~CountUndetermined

\* C3: for max_iters >= 1, a run in which no iteration is accepted ends after
\* exactly max_iters iterations and max_iters writes, returning normally, the
\* output file holding what the last write persisted.
C3_ExhaustsAfterMaxIters ==
    (max_iters >= 1 /\ Terminated /\ pc # "Accepted")
        => /\ pc = "Exhausted"
           /\ iteration = max_iters
           /\ iter_counter = max_iters
           /\ file # None
           /\ WellFormed(parsed_text) => file = Some(parsed_text)

\* C4: a first iteration with no issue, exit status 0 and zero violations is
\* accepted at once: one synthesizer call, one write, and nothing runs after.
C4_AcceptedInOneIteration ==
    /\ [][(pc = "Deciding" /\ iteration = 1 /\ AllThree)
            => (pc' = "Accepted" /\ iteration' = 1 /\ iter_counter' = 1
                /\ log' = log /\ file' = file)]_vars
    /\ [](pc = "Accepted" /\ iteration = 1
            => iter_counter = 1
               /\ Cardinality({i \in 1..Len(log) : log[i].content.kind = "request"}) = 1)
    /\ [][pc = "Accepted" => UNCHANGED vars]_vars

C4_Witness == pc = "Accepted" /\ iteration = 1 /\ iter_counter = 1 /\ max_iters > 1

\* the last k entries of s
LastN(s, k) == SubSeq(s, Len(s) - k + 1, Len(s))

\* C5: the retained history has at most 10 entries and is the most recent
\* min(n, 10) of the n entries appended so far, in their order.
C5_HistoryIsLastTen ==
    /\ Len(history) <= 10
    /\ history = LastN(log, IF Len(log) < 10 THEN Len(log) ELSE 10)

\* twelve synthesizer calls made, entries evicted
C5_Witness == iter_counter >= 12 /\ Len(log) > 20 /\ Len(history) = 10

\* C6: write persists a well-formed candidate; otherwise the non-blank
\* previous document, unchanged; otherwise the seed document.  A candidate that
\* is not well-formed is not what gets written.
C6_WritePolicy ==
    [][(pc = "Generating" /\ pc' = "Checking")
        => /\ WellFormed(parsed_text') => file' = Some(parsed_text')
           /\ (~WellFormed(parsed_text') /\ NonBlank(prev_text)) => file' = prev_text
           /\ (~WellFormed(parsed_text') /\ ~NonBlank(prev_text))
                 => file' = Some(seed_schematic)
           /\ (~WellFormed(parsed_text') /\ prev_text # Some(parsed_text'))
                 => file' # Some(parsed_text')]_vars

\* a reply without a well-formed candidate, the previous document kept
C6_Witness ==
    /\ pc = "Checking" /\ oracle = "reply"
    /\ parsed_text # <<>> /\ ~WellFormed(parsed_text)
    /\ file = Some(<<"OPEN", "VER9", "SHEET", "CLOSE">>)

\* the document persisted by the fallback policy
Fallback(prev) == IF NonBlank(prev) THEN prev ELSE Some(seed_schematic)

\* C7: when the synthesizer's oracle call raises or returns nothing, the
\* reply counts as empty, only the request is added to the history, the
\* fallback document is written and the run goes on to the checking phase.
C7_OracleFailureFallsBack ==
    [][(pc = "Generating" /\ pc' # pc /\ oracle' \in {"raised", "empty"})
        => /\ pc' = "Checking"
           /\ parsed_text' = <<>>
           /\ Len(log') = Len(log) + 1
           /\ log'[Len(log')].role = "user"
           /\ \A i \in 1..Len(log') :
                 log'[i].content.kind = "reply" => log'[i].content.n # iter_counter'
           /\ file' = Fallback(prev_text)]_vars

\* the oracle failed in a later iteration, the earlier document was kept and
\* the checks ran on it
C7_Witness ==
    /\ pc = "Deciding" /\ oracle = "raised" /\ iteration >= 2
    /\ file # Some(seed_schematic)

\* C8: validate never raises into the loop.
C8_ValidateNeverRaises == pc # "ValidatorRaised"

\* C9: with the rule checker absent no exit status and no violation count are
\* obtained, no iteration is accepted, and the run ends Exhausted after
\* exactly max_iters iterations.
C9_AbsentToolExhausts ==
    ~exe => /\ erc_rc = None /\ erc_violations = None
            /\ pc # "Accepted"
            /\ Terminated => (pc = "Exhausted" /\ iter_counter = max_iters)

FeedbackCount == Cardinality({i \in 1..Len(log) : log[i].content.kind = "feedback"})

\* C10: a feedback record is appended only on the way to another generation:
\* the records appended so far are one per iteration begun after the first.
C10_FeedbackOnlyBeforeGeneration == iteration >= 1 => FeedbackCount = iteration - 1

\* C11: the output file is never partially written: during and after a write
\* it holds the previous iteration's document or the whole new document, and
\* after a write that failed it holds the previous iteration's document.
C11_FileNeverPartial ==
    /\ pc \in {"Opening", "Writing", "WriteRaised", "Checking"}
          => file \in {prev_text, Some(persisted(parsed_text, prev_text))}
    /\ pc = "WriteRaised" => file = prev_text
    /\ pc = "Checking" => file = Some(persisted(parsed_text, prev_text))

\* C12: the progress callback does not influence control flow: every step of
\* a run with a callback is a step of the run without one (the same calls,
\* writes, checks and decisions, the same history, the same end).
C12_CallbackRunIsPlainRun == [][Next]_vars

\* the references of the parts are pairwise distinct
DistinctRefs(ps) == \A i, j \in 1..Len(ps) : i # j => ps[i].ref # ps[j].ref

\* C13: for N parts with distinct references, whatever the catalog and the
\* search results, the table has exactly N keys, the references of the parts,
\* every value is a non-empty list, and no list holds "Device:U" or
\* "Device:Unknown" in any letter case.
C13_TableCompleteNoSentinel ==
    (pc = "Generating" /\ DistinctRefs(parts))
        => /\ Len(allowed) = Len(parts)
           /\ \A i \in 1..Len(allowed) :
                 /\ allowed[i].key = parts[i].ref
                 /\ allowed[i].value # <<>>
                 /\ \A j \in 1..Len(allowed[i].value) :
                       LowerId(allowed[i].value[j]) \notin Sentinels

\* two parts, one resolved by the search and one given a custom identifier
C13_Witness ==
    /\ pc = "Generating" /\ Len(parts) = 2 /\ DistinctRefs(parts)
    /\ allowed[1].value = << <<"MCU_Espressif", "ESP32-WROOM-32">> >>
    /\ allowed[2].value = << <<"Custom", "CustomPart">> >>

\* the tags of issues equal to tag
CountOf(iss, tag) == Cardinality({k \in 1..Len(iss) : iss[k] = tag})

\* C14: for a file that cannot be read the completeness probe reports that
\* the file is unreadable, so validate returns issues with and without the
\* oracle probe, and the other probes report nothing.
C14_UnreadableIsReported ==
    (pc = "Validated" /\ ~readable)
        => /\ check_missing_embedded_symbols(None) # <<>>
           /\ issues # <<>>
           /\ check_symbol_pins_and_graphics(None) = <<>>
           /\ check_invalid_lib_ids_and_sheet(None) = <<>>
           /\ check_instance_positions_and_refs(None) = <<>>

\* the placed instances of a text, and the identifiers its lib_symbols
\* sections define
Placed(text) == SelectSeq(text, LAMBDA t : t \in SymTok)
DefinedIds(text) == IF contains(text, "LIBSYMS") THEN {"Device:R"} ELSE {}

\* C15: in a document with a lib_symbols section the completeness probe
\* reports an issue for every identifier that a placed instance uses and the
\* section does not define.
C15_UndefinedIdsReported ==
    (pc = "Validated" /\ readable
        /\ \E i \in 1..Len(TheValue(file)) : HasLibSymbols(TheValue(file)[i]))
        => LET text == TheValue(file)
               undefined == {LibIdOf(Placed(text)[i]) : i \in 1..Len(Placed(text))}
                            \ DefinedIds(text)
               found == check_missing_embedded_symbols(file)
           IN  /\ Len(found) >= Cardinality(undefined)
               /\ SubSeq(issues, 1, Len(found)) = found

\* the pairs i < j of placed instances whose own positions are closer than
\* min_spacing
ClosePlaced(text) ==
    LET p == Placed(text)
    IN  {ij \in (1..Len(p)) \X (1..Len(p)) :
            /\ ij[1] < ij[2]
            /\ LET dx == AtOf(p[ij[1]])[1] - AtOf(p[ij[2]])[1]
                   dy == AtOf(p[ij[1]])[2] - AtOf(p[ij[2]])[2]
               IN  dx * dx + dy * dy < min_spacing * min_spacing}

\* C16: the placement probe emits one too-close issue, naming both
\* references, for each unordered pair of instances placed closer than 20, and
\* none for any other pair, whatever lies between the two instances.
C16_OneIssuePerClosePair ==
    (pc = "Validated" /\ readable)
        => LET text == TheValue(file)
               p == Placed(text)
               pairs == too_close_pairs(extract_instances(file))
           IN  /\ Len(pairs) = Cardinality(ClosePlaced(text))
               /\ \A ij \in ClosePlaced(text) :
                     \E k \in 1..Len(pairs) : pairs[k] = <<RefOf(p[ij[1]]), RefOf(p[ij[2]])>>
               /\ CountOf(issues, "too_close") = Cardinality(ClosePlaced(text))

\* the prefix letter of an identifier's category: resistor R, capacitor C,
\* connector J, LED D, crystal Y
CategoryPrefix(lib_id) ==
    CASE lib_id = "Device:R" -> "R"
      [] lib_id = "Device:C" -> "C"
      [] lib_id = "Connector:Conn_01x02" -> "J"
      [] lib_id = "Device:LED" -> "D"
      [] lib_id = "Device:Crystal" -> "Y"

\* C17: for every placed instance the prefix expected is the letter of its
\* own identifier's category, and one prefix-mismatch issue is emitted for it
\* iff its reference does not start with that letter.
C17_PrefixByCategory ==
    (pc = "Validated" /\ readable)
        => LET p == Placed(TheValue(file))
               inst == extract_instances(file)
               wrong == {i \in 1..Len(p) :
                           ~RefStartsWith(RefOf(p[i]), CategoryPrefix(LibIdOf(p[i])))}
           IN  /\ \A i \in 1..Len(p) :
                     prefix_mismatches(<<inst[i]>>)
                        = IF i \in wrong
                          THEN << <<RefOf(p[i]), CategoryPrefix(LibIdOf(p[i]))>> >>
                          ELSE <<>>
               /\ CountOf(issues, "prefix_mismatch") = Cardinality(wrong)

\* C18: validate run again on the unchanged document returns the issue list
\* of the run before.
C18_ValidateTwiceSame ==
    [][pc = "Validated" => (pc' = "Validated" /\ issues' = issues)]_vars

\* the file is the seed document of a title that satisfies ok
SeedFor(ok(_)) ==
    \E title \in Titles : ok(title) /\ file = Some(seed_schematic_titled(title))

\* the completeness probe and the header-version test report nothing
NoCompletenessNoVersionIssue ==
    /\ check_missing_embedded_symbols(file) = <<>>
    /\ CountOf(check_invalid_lib_ids_and_sheet(file), "bad_version") = 0
    /\ CountOf(issues, "no_lib_symbols") = 0
    /\ CountOf(issues, "bad_version") = 0

MissingOnDisk ==
    IF file = None THEN expected_refs
    ELSE SelectSeq(expected_refs,
                   LAMBDA r : ~\E i \in 1..Len(Placed(TheValue(file))) :
                                   RefOf(Placed(TheValue(file))[i]) = r)

\* C20: when expected references are not placed in the persisted text, the
\* checking phase appends one message that names them all in table order, and
\* the iteration is not accepted.
C20_MissingRefsReported ==
    /\ (pc \in {"RuleChecking", "Deciding"} /\ MissingOnDisk # <<>>)
          => /\ CountOf(issues, "missing_refs") = 1
             /\ issues[Len(issues)] = "missing_refs"
             /\ missing_refs(prev_text, expected_refs) = MissingOnDisk
    /\ pc = "Accepted" => MissingOnDisk = <<>>

\* the content of the input file is malformed (not JSON, or a member of the
\* wrong type) or of a shape that is neither the native nor the pseudo-CAD one
Unrecognized(f) == f.json.t # "dict" \/ (f.json.components.t = "absent"
                                        /\ f.json.parts.t = "absent" /\ f.json.nets.t = "absent")

\* C21: load_circuit_spec returns the empty default circuit (no parts, no
\* nets) for every readable input file whose content is malformed or of an
\* unrecognized shape, and raises only when the file cannot be read.
C21_MalformedYieldsDefault ==
    pc = "Returned" =>
        /\ (ret.raised # None => ~args.readable)
        /\ (args.readable /\ Unrecognized(args)
                => ret.raised = None /\ ret.parts = <<>> /\ ret.nets = <<>>)

\* the preferred identifier holds the ":" delimiter
Qualified(preferred) == preferred # None /\ Len(TheValue(preferred)) = 2
\* the candidates of each kind that exist in the catalog, in the order tried
TypeFound(a) == SelectSeq(type_candidates(a.part_type), LAMBDA c : c \in a.index)
ValueFound(a) ==
    IF a.value \in {None, Some("")} THEN <<>>
    ELSE SelectSeq(<< <<"Device", TheValue(a.value)>>,
                      <<"Connector_Generic", TheValue(a.value)>> >>, LAMBDA c : c \in a.index)
PreferredFound(a) ==
    IF a.preferred \in {None, Some(<<"">>)} \/ Qualified(a.preferred) THEN <<>>
    ELSE SelectSeq(<< <<"Device", TheValue(a.preferred)[1]>> >>, LAMBDA c : c \in a.index)

C22_InputNotMutated == pc = "Designed" => ret.input = ret.before

\* a revision that applied a reply and returned a design that differs from
\* the one passed in
C22_Witness ==
    /\ pc = "Designed" /\ ret.n >= 1 /\ ret.applied # None
    /\ ret.output.parts # ret.before.parts /\ ret.output.nets # ret.before.nets

\* the reply holds a valid span: an opening token followed later by a ")"
HasSpan(reply) ==
    \E i, j \in 1..Len(reply) : i < j /\ reply[i] = "OPEN" /\ EndsParen(reply[j])

\* C24: when the oracle's reply holds no valid document span, generate_text
\* returns an empty extracted document; when it holds one, the extracted
\* document is exactly the text from the first "(kicad_sch" to the last ")".
C24_NoSpanNoDocument ==
    pc = "Returned" /\ ~args.raised =>
        IF HasSpan(args.text)
        THEN LET i == CHOOSE i \in 1..Len(args.text) :
                        args.text[i] = "OPEN" /\ \A k \in 1..(i - 1) : args.text[k] # "OPEN"
                 j == CHOOSE j \in 1..Len(args.text) :
                        EndsParen(args.text[j])
                        /\ \A k \in (j + 1)..Len(args.text) : ~EndsParen(args.text[k])
             IN  ret.parsed = SubSeq(args.text, i, j)
        ELSE ret.parsed = <<>>

\* C25: whenever the structured report of the rule checker is unavailable in
\* an iteration in which an invocation of the tool completed (the tool ran
\* but the report file is missing or unparsable, or the JSON invocation
\* failed), the violation count used in the decision is the one parsed from
\* the checker's stdout/stderr text with the "Found N violations" pattern.
C25_TextFallback ==
    pc = "Deciding" /\ erc_rc # None /\ erc_json.kind = "none" =>
        /\ erc_out # None
        /\ erc_violations = Some(parse_erc_violations(TheValue(erc_out)))

\* every attempt made but the last one failed
EarlierFailed == \A i \in 1..(Len(ret.attempts) - 1) : ret.attempts[i].raised

\* C26: a chat call tries the oracle at most 3 times; it returns the reply
\* of the first attempt that does not fail and makes no attempt after it; it
\* raises only after the 3rd consecutive failed attempt; a reply with bad
\* content is returned, never retried.
C26_AtMostThreeAttempts ==
    /\ [](Len(ret.attempts) <= 3)
    /\ [](pc = "Returned" /\ args.client
            => /\ ret.attempts # <<>> /\ EarlierFailed
               /\ ~ret.attempts[Len(ret.attempts)].raised
               /\ ret.reply = ret.attempts[Len(ret.attempts)].text)
    /\ [](pc = "Raised"
            => Len(ret.attempts) = 3 /\ \A i \in 1..3 : ret.attempts[i].raised)
    /\ [][(pc \in {"Returned", "Raised"}) => UNCHANGED vars]_vars
    /\ [][pc = "Calling" /\ ret' # ret /\ ~ret'.attempts[Len(ret'.attempts)].raised
            => pc' = "Returned"]_vars

\* a call that returns the reply of its third attempt, a reply that holds
\* no document
C26_Witness ==
    /\ pc = "Returned" /\ Len(ret.attempts) = 3
    /\ ret.reply = <<"TXT">>

\* the step of iteration k in which the synthesizer is called
WriteStep(k) == pc = "Generating" /\ pc' = "Checking" /\ iteration = k

\* C27: the synthesizer call of iteration 1 receives no previous document
\* and no issues; the call of iteration k+1 receives as previous document
\* exactly the file content persisted in iteration k and as issues exactly
\* the merged issue list decided in iteration k; within an iteration the
\* phases run in the order write, consistency check, rule check, decision.
C27_FeedbackToNextIteration ==
    /\ [][WriteStep(1) => prev_text = None /\ issues = <<>>]_vars
    /\ [][\A k \in 2..MaxIters : WriteStep(k) => prev_text = file]_vars
    /\ [][pc # "Generating" => file' = file]_vars
    /\ [][pc = "Deciding" /\ pc' = "Generating"
            => issues' = issues /\ prev_text' = prev_text /\ iteration' = iteration + 1]_vars
    /\ [][pc' # pc => <<pc, pc'>> \in
            {<<"Generating", "Checking">>, <<"Checking", "RuleChecking">>,
             <<"RuleChecking", "Deciding">>, <<"Deciding", "Generating">>,
             <<"Deciding", "Accepted">>, <<"Deciding", "Exhausted">>,
             <<"Checking", "ValidatorRaised">>, <<"RuleChecking", "SummaryRaised">>}]_vars

\* the box of the part is centred on its position
Centred(p) ==
    /\ p.bbox[1] = p.position[1] - (p.bbox[3] \div 2)
    /\ p.bbox[2] = p.position[2] - (p.bbox[4] \div 2)

\* C28: for every part of every design that _base_design,
\* _apply_positions_and_symbols_from_json or revise_design produced, after
\* any sequence of position changes by the oracle or by the heuristic shift,
\* bbox.x = position.x - width // 2 and bbox.y = position.y - height // 2.
C28_BoxCentredOnPosition ==
    pc = "Designed" =>
        \A i \in 1..Len(ret.output.parts) : Centred(ret.output.parts[i])

\* a part moved by the oracle to (-5, 7) and then shifted by the heuristic
C28_Witness ==
    /\ pc = "Designed" /\ ret.n = 2 /\ ret.applied = None
    /\ \E i \in 1..Len(ret.output.parts) :
          /\ ret.output.parts[i].position = <<5, 15>>
          /\ ret.before.parts[i].position = <<-5, 7>>

\* the selection the applied reply makes for the reference: that of its last
\* entry for it, None when it has no entry or the entry selects nothing
Selection(ref) ==
    LET es == TheValue(ret.applied).parts
        is == {i \in 1..Len(es) : es[i].ref = ref}
    IN  IF is = {} THEN None ELSE es[CHOOSE i \in is : \A j \in is : j <= i].sel
HasEntry(ref) ==
    \E i \in 1..Len(TheValue(ret.applied).parts) : TheValue(ret.applied).parts[i].ref = ref

\* C29: after the architect applies an oracle reply, every part with a
\* non-empty allowed list has a symbol of that list: the oracle's selection
\* when it is in the list, and the first entry of the list when the
\* selection is invalid or absent, also when the reply has no entry for the
\* part.
C29_SymbolFromAllowedList ==
    pc = "Designed" /\ ret.applied # None =>
        \A i \in 1..Len(ret.output.parts) :
            LET p == ret.output.parts[i]
                list == dict_get(ret.allowed, p.ref, <<>>)
                sel == Selection(p.ref)
                valid == sel # None /\ \E k \in 1..Len(list) : list[k] = TheValue(sel)
            IN  list # <<>> =>
                    p.symbol = IF valid THEN TheValue(sel) ELSE list[1]

\* what the similarity search yields for the part's value: its hits that
\* are no sentinel
SearchYield(a) ==
    IF a.part.value \in {None, Some("")} THEN <<>>
    ELSE SelectSeq(a.chroma[TheValue(a.part.value)], LAMBDA h : LowerId(h) \notin Sentinels)

\* C30: in candidates_for_part, for a part of any type for which the local
\* heuristics find nothing in the catalog, the similarity search is consulted
\* before a placeholder is made: a "Custom:" placeholder is returned only if
\* that search also yields nothing.
C30_PlaceholderOnlyAfterSearch ==
    pc = "Returned" /\ ret[1][1] = "Custom" => SearchYield(args) = <<>>

\* the events received by the interactive thread, in the order received
Received == SelectSeq(ret.log, LAMBDA e : e.sig # "direct")
Terminal(s) == SelectSeq(s, LAMBDA e : e.sig \in {"done", "error"})

C32_RunEndsWithDone ==
    pc = "Finished" /\ load_circuit_spec(args).raised = None =>
        /\ ret.started
        /\ ret.emitted[Len(ret.emitted)].sig = "done"

\* text.strip() starts with "(kicad_sch" and ends with ")"
StrippedWellFormed(t) == startswith_open(strip(t)) /\ endswith_close(strip(t))

\* C33: after every iteration of the loop, whatever the oracle replied, the
\* content of the output file, stripped of surrounding whitespace, starts
\* with "(kicad_sch" and ends with ")": the file is written by the generation
\* step only, and what it then holds is the well-formed candidate of this
\* iteration, the content an earlier iteration left in it, or the seed
\* document.
C33_FileAlwaysWellFormed ==
    [][/\ file' # file => (pc = "Generating" /\ pc' = "Checking")
       /\ (pc = "Generating" /\ pc' = "Checking")
            => /\ file' # None
               /\ StrippedWellFormed(TheValue(file'))
               /\ \/ file' = Some(parsed_text') /\ StrippedWellFormed(parsed_text')
                  \/ file' = file /\ file # None
                  \/ file' = Some(seed_schematic)]_vars

\* a later iteration whose oracle returned nothing left the candidate of an
\* earlier iteration in the file
C33_Witness ==
    /\ pc = "Checking" /\ iteration >= 2 /\ oracle = "empty"
    /\ file \notin {None, Some(seed_schematic)}
    /\ StrippedWellFormed(TheValue(file))

\* C34: the seed document is never accepted, the identifier/sheet probe
\* reporting the missing sheet bookkeeping for it; so a run whose oracle
\* fails or returns malformed output in every iteration, which leaves the
\* seed document in the output file after every iteration, ends Exhausted
\* after exactly max_iters iterations, whatever the rule checker reports.
C34_SeedNeverAccepted ==
    file = Some(seed_schematic) =>
        /\ pc # "Accepted"
        /\ Terminated => (pc = "Exhausted" /\ iter_counter = max_iters)

\* C35: with max_iters <= 0 the loop body never runs: no synthesizer call, no
\* validation and no rule check are made, no output file is written, and the
\* run still returns the output path without raising.
C35_NoIterationNoFile ==
    max_iters <= 0 =>
        /\ pc = "Exhausted"
        /\ iteration = 0 /\ iter_counter = 0
        /\ oracle = "none" /\ history = <<>> /\ log = <<>>
        /\ issues = <<>>
        /\ erc_rc = None /\ erc_violations = None /\ erc_out = None
        /\ file = None /\ prev_text = None

\* the run with no iteration has returned and the output path names no file
C35_Witness == max_iters = 0 /\ pc = "Exhausted" /\ file = None /\ ~ENABLED Next

\* s is what is left of t when entries are dropped from its front
IsSuffix(s, t) == Len(s) <= Len(t) /\ s = SubSeq(t, Len(t) - Len(s) + 1, Len(t))

\* C36: every request sent to the oracle by the synthesizer is the system
\* instructions of this call followed by the retained history; it has at most
\* 11 messages and its last message is the request payload of the current
\* iteration, which the 10-entry cap never evicts before it is sent.
C36_RequestEndsWithCurrentPayload ==
    [][(pc = "Generating" /\ pc' = "Checking")
        => LET n == iter_counter + 1
               request == [role |-> "user", content |-> build_prompt(n, prev_text, issues)]
               sent == messages([history |-> history, log |-> log, iter_counter |-> n],
                                prev_text, issues)
           IN  /\ iter_counter' = n
               /\ Len(sent) >= 2 /\ Len(sent) <= HistoryCap + 1
               /\ sent[1].role = "system" /\ sent[1].content.n = n
               /\ \A i \in 2..Len(sent) : sent[i].role # "system"
               /\ IsSuffix(Tail(sent), Append(history, request))
               /\ sent[Len(sent)] = request
               /\ history' \in {Tail(sent),
                                add_history(Tail(sent), "assistant",
                                            [kind |-> "reply", n |-> n])}]_vars

\* with the history at its cap, the request of the current iteration was
\* sent as the last of 11 messages and the oracle returned nothing
C36_Witness ==
    /\ pc = "Checking" /\ oracle = "empty"
    /\ Len(log) > HistoryCap /\ Len(history) = HistoryCap
    /\ history[HistoryCap].content.kind = "request"
    /\ history[HistoryCap].content.n = iter_counter

\* C37: no identifier that candidates_for_parts places in the allowed table is
\* reported by the validator's invalid-identifier check: the identifiers
\* filtered from the candidate lists are those the validator flags as invalid
\* ("device:u" and "device:unknown" in any letter case), so on every
\* identifier of the table the two tests agree and both say no.
C37_AllowedNeverInvalid ==
    pc = "Checked" =>
        /\ ~ret.invalid
        /\ \A i \in 1..Len(ret.allowed) :
              LowerId(ret.allowed[i]) \in Sentinels
                 <=> InvalidLibId(lib_id_text(ret.allowed[i]))

====
